---- MODULE Spec2Model ----
(***************************************************************************)
(* A state-machine model of the stackscript interpreter:                   *)
(*   - the value model (src/stackscript/values.py),                        *)
(*   - the operator registry and dispatch                                  *)
(*     (src/stackscript/operators/overloading.py),                         *)
(*   - the context frames and the evaluator (src/stackscript/runtime.py),  *)
(*   - the operator handlers (src/stackscript/operators/*.py).             *)
(* The Python call stack is the variable "frames"; every recursive         *)
(* re-entry of ContextFrame.exec is a frame on it.                         *)
(***************************************************************************)
EXTENDS Integers, Sequences, FiniteSets, TLC

(***************************************************************************)
(* Bounds of the model.                                                    *)
(***************************************************************************)
\* integer literals of the generated scripts range over 0..MaxInt
MaxInt == 2
\* depth of the stacks drawn for the dispatch specifications
MaxStack == 3

(***************************************************************************)
(* Values.  Every value is a record [t, n, s]: t is the tpname of the      *)
(* Python class, n an integer payload, s a sequence payload.               *)
(***************************************************************************)
BoolValue(b) == [t |-> "bool", n |-> IF b THEN 1 ELSE 0, s |-> <<>>]

IntValue(i) == [t |-> "int", n |-> i, s |-> <<>>]

\* a float is held as the number of its halves (0.5 is FloatValue(1))
FloatValue(f) == [t |-> "float", n |-> f, s |-> <<>>]

\* a string is the sequence of its characters
StringValue(chars) == [t |-> "string", n |-> 0, s |-> chars]

TupleValue(items) == [t |-> "tuple", n |-> 0, s |-> items]

\* an array is a reference (n) to its contents on the heap
ArrayRef(id) == [t |-> "array", n |-> id, s |-> <<>>]

BlockValue(syms) == [t |-> "block", n |-> 0, s |-> syms]

\* pseudo values: NameValue(ctx, name) and IndexValue(array, index)
NameValue(c, name) == [t |-> "_name", n |-> c, s |-> <<name>>]

IndexValue(array, index) == [t |-> "_index", n |-> index.n, s |-> <<array>>]

\* the absent value (Python None)
None == [t |-> "None", n |-> 0, s |-> <<>>]

\* ScriptValue.optype of every value class
optype(v) ==
    CASE v.t = "bool" -> "Bool"
      [] v.t \in {"int", "float"} -> "Number"
      [] v.t = "string" -> "String"
      [] v.t \in {"tuple", "array"} -> "Array"
      [] v.t = "block" -> "Exec"
      [] v.t \in {"_name", "_index"} -> "Name"

Operand == {"Bool", "Number", "String", "Array", "Exec", "Name"}

\* a truthiness that lets the numbers zero and the empty sequences be false
bool_zero_empty_false(v, heap_) ==
    CASE v.t = "bool" -> v.n = 1
      [] v.t \in {"int", "float"} -> v.n # 0
      [] v.t \in {"string", "tuple"} -> v.s # <<>>
      [] v.t = "array" -> heap_[v.n] # <<>>
      [] OTHER -> TRUE

\* bool(v): ScriptValue.__bool__ is True, only BoolValue overrides it.
\* (StringValue, TupleValue and ArrayValue define __len__, which Python's
\* bool() does not consult when the class has a __bool__.)
bool(v, heap_) == IF v.t = "bool" THEN v.n = 1 ELSE TRUE

\* isinstance(v, BindingTarget)
IsBindingTarget(v) == v.t \in {"_name", "_index"}

\* isinstance(v, SequenceValue)
IsSequenceValue(v) == v.t \in {"string", "tuple", "array"}

\* isinstance(v, CtxExecValue)
IsCtxExecValue(v) == v.t = "block"

(***************************************************************************)
(* The overload table.                                                     *)
(***************************************************************************)
Reverse(s) == [i \in 1..Len(s) |-> s[Len(s) + 1 - i]]

\* itertools.permutations(range(n)), 1-based
permutations(n) == {p \in [1..n -> 1..n] : \A i, j \in 1..n : p[i] = p[j] => i = j}

\* OperatorOverload(op, arity, signature, func); "typed" tells a signature
\* tuple from an integer key, "permute" is the _ReorderFunc permutation
\* (empty when func is the handler itself)
OperatorOverload(op, arity, typed, signature, func, permute) ==
    [op |-> op, arity |-> arity, typed |-> typed, signature |-> signature,
     func |-> func, permute |-> permute]

NoOverload == OperatorOverload("", 0, FALSE, <<>>, "", <<>>)

ophandler_untyped(op, arity, func) ==
    {OperatorOverload(op, arity, FALSE, <<>>, func, <<>>)}

ophandler_typed(op, signature, func) ==
    {OperatorOverload(op, Len(signature), TRUE, signature, func, <<>>)}

ophandler_permute(op, base_sig, func) ==
    {OperatorOverload(op, Len(base_sig), TRUE,
                      [i \in 1..Len(base_sig) |-> base_sig[permute[i]]],
                      func, permute) : permute \in permutations(Len(base_sig))}

\* _ReorderFunc.__call__: the arguments handed to the wrapped handler
ReorderFunc(permute, args) ==
    IF permute = <<>> THEN args ELSE [i \in 1..Len(permute) |-> args[permute[i]]]

NN == <<"Number", "Number">>

OP_REGISTRY_general ==
    ophandler_untyped("Quote", 1, "operator_quote")
    \cup ophandler_untyped("Dup", 0, "operator_dup")
    \cup ophandler_untyped("Drop", 1, "operator_drop")
    \cup ophandler_untyped("Break", 0, "operator_break")
    \cup ophandler_typed("Eval", <<"Exec">>, "operator_eval")
    \cup ophandler_permute("Mul", <<"Number", "Exec">>, "operator_repeat")
    \cup ophandler_typed("Eval", <<"String">>, "operator_eval_string")
    \cup ophandler_untyped("Mod", 2, "operator_invoke")
    \cup ophandler_untyped("BitOr", 2, "operator_compose")
    \cup ophandler_untyped("Assign", 0, "operator_assign")

OP_REGISTRY_arithmetic ==
    ophandler_typed("Add", NN, "operator_add")
    \cup ophandler_typed("Sub", NN, "operator_sub")
    \cup ophandler_typed("Mul", NN, "operator_mul")
    \cup ophandler_typed("Div", NN, "operator_div")
    \cup ophandler_typed("Pow", NN, "operator_pow")
    \cup ophandler_typed("Mod", NN, "operator_mod")
    \cup ophandler_typed("Equal", NN, "operator_equal_numeric")
    \cup ophandler_typed("NE", NN, "operator_ne_numeric")
    \cup ophandler_typed("LT", NN, "operator_lt")
    \cup ophandler_typed("LE", NN, "operator_le")
    \cup ophandler_typed("GT", NN, "operator_gt")
    \cup ophandler_typed("GE", NN, "operator_ge")
    \cup ophandler_typed("Invert", <<"Number">>, "operator_invert")
    \cup ophandler_typed("BitAnd", NN, "operator_bitand_int")
    \cup ophandler_typed("BitOr", NN, "operator_bitor_int")
    \cup ophandler_typed("BitXor", NN, "operator_bitxor_int")

OP_REGISTRY_sequences ==
    ophandler_typed("Invert", <<"Array">>, "operator_unpack")
    \cup ophandler_typed("Invert", <<"String">>, "operator_unpack")
    \cup ophandler_typed("Collect", <<"Number">>, "operator_collect")
    \cup ophandler_typed("Index", <<"Array", "Number">>, "operator_index")
    \cup ophandler_typed("Index", <<"String", "Number">>, "operator_index")
    \cup ophandler_typed("Index", <<"Array", "Name">>, "operator_index_name")
    \cup ophandler_typed("Index", <<"Name", "Name">>, "operator_index_name")
    \cup ophandler_typed("Index", <<"Name", "Number">>, "operator_index_name")
    \cup ophandler_typed("Size", <<"Array">>, "operator_size")
    \cup ophandler_typed("Size", <<"String">>, "operator_size")
    \cup ophandler_typed("Add", <<"Array", "Array">>, "operator_concat")
    \cup ophandler_typed("Add", <<"String", "String">>, "operator_concat_string")
    \cup ophandler_permute("Mul", <<"Number", "Array">>, "operator_repeat_array")
    \cup ophandler_permute("Mul", <<"Number", "String">>, "operator_repeat_string")
    \cup ophandler_typed("Sub", <<"Array", "Array">>, "operator_diff")
    \cup ophandler_typed("BitOr", <<"Array", "Array">>, "operator_bitor_set")
    \cup ophandler_typed("BitAnd", <<"Array", "Array">>, "operator_bitand_set")
    \cup ophandler_typed("BitXor", <<"Array", "Array">>, "operator_bitxor_set")

OP_REGISTRY_conditional ==
    ophandler_untyped("Equal", 2, "operator_equal")
    \cup ophandler_untyped("NE", 2, "operator_ne")
    \cup ophandler_untyped("Not", 1, "operator_not")
    \cup ophandler_typed("BitAnd", <<"Bool", "Bool">>, "operator_bitand_bool")
    \cup ophandler_typed("BitOr", <<"Bool", "Bool">>, "operator_bitor_bool")
    \cup ophandler_typed("BitXor", <<"Bool", "Bool">>, "operator_bitxor_bool")
    \cup ophandler_untyped("And", 2, "operator_and")
    \cup ophandler_untyped("Or", 2, "operator_or")
    \cup ophandler_untyped("If", 3, "operator_if")
    \cup ophandler_typed("While", <<"Exec", "Exec">>, "operator_while")
    \cup ophandler_typed("Do", <<"Exec">>, "operator_do")

\* the registry after all operator modules are imported
OP_REGISTRY ==
    OP_REGISTRY_general \cup OP_REGISTRY_arithmetic
    \cup OP_REGISTRY_sequences \cup OP_REGISTRY_conditional

\* the operators of the language; RShift has no handler
Operator ==
    {"Invert", "Quote", "Eval", "Dup", "Drop", "Break", "Assign", "Add",
     "Sub", "Mul", "Div", "Mod", "Pow", "BitOr", "BitAnd", "BitXor",
     "Collect", "RShift", "LT", "LE", "GT", "GE", "NE", "Equal", "Index",
     "Size", "Not", "And", "Or", "If", "Do", "While"}

SetMax(S) == IF S = {} THEN 0 ELSE CHOOSE m \in S : \A x \in S : x <= m

\* OP_ARITY[op]: the largest registered arity, 0 for an operator never registered
OP_ARITY(registry, op) == SetMax({o.arity : o \in {r \in registry : r.op = op}})

\* registry.get(signature) for a signature tuple
RegistryGetSignature(registry, op, signature) ==
    LET hits == {o \in registry : o.op = op /\ o.typed /\ o.signature = signature}
    IN IF hits = {} THEN NoOverload ELSE CHOOSE o \in hits : TRUE

\* registry.get(nargs) for an integer key
RegistryGetArity(registry, op, nargs) ==
    LET hits == {o \in registry : o.op = op /\ ~o.typed /\ o.arity = nargs}
    IN IF hits = {} THEN NoOverload ELSE CHOOSE o \in hits : TRUE

\* _register_operator refuses a signature registered twice
RegistryWellFormed(registry) ==
    \A a, b \in registry :
        (a.op = b.op /\ a.typed = b.typed /\ a.arity = b.arity
         /\ a.signature = b.signature) => a = b

\* the outcome of a search: "selected", "invalid operands", "not enough operands"
SearchResult(outcome, opdata, args) ==
    [outcome |-> outcome, opdata |-> opdata, args |-> args]

\* one pass of the loop body of _search_registery that looks the integer key
\* up before the signature
SearchStepUntypedFirst(registry, op, args) ==
    LET signature == [i \in 1..Len(args) |-> optype(args[Len(args) + 1 - i])]
        byArity == RegistryGetArity(registry, op, Len(args))
    IN IF byArity # NoOverload THEN byArity
       ELSE RegistryGetSignature(registry, op, signature)

\* one pass of the loop body of _search_registery: args holds the peeked
\* values, top of stack first; the signature is read bottom-to-top
SearchStep(registry, op, args) ==
    LET signature == [i \in 1..Len(args) |-> optype(args[Len(args) + 1 - i])]
        bySignature == RegistryGetSignature(registry, op, signature)
    IN IF bySignature # NoOverload THEN bySignature
       ELSE RegistryGetArity(registry, op, Len(args))

\* a loop exit that lets the search run one value past the maximum arity
SearchExhaustedLate(registry, op, nargs) == nargs > OP_ARITY(registry, op)

\* the loop's exit test: nargs >= arity
SearchExhausted(registry, op, nargs) == nargs >= OP_ARITY(registry, op)

RECURSIVE SearchLoop(_, _, _, _)
\* the for loop of _search_registery over ctx.iter_stack(), at its nargs-th value
SearchLoop(registry, op, stack, nargs) ==
    IF nargs > Len(stack)
    THEN SearchResult("not enough operands", NoOverload, <<>>)
    ELSE LET args == SubSeq(stack, 1, nargs)
             opdata == SearchStep(registry, op, args)
         IN IF opdata # NoOverload THEN SearchResult("selected", opdata, args)
            ELSE IF SearchExhausted(registry, op, nargs)
                 THEN SearchResult("invalid operands", NoOverload, args)
                 ELSE SearchLoop(registry, op, stack, nargs + 1)

\* a search that peeks a value before it looks for a handler of no operands
search_registery_peeks_first(registry, op, stack) ==
    LET zero == IF RegistryGetSignature(registry, op, <<>>) # NoOverload
                THEN RegistryGetSignature(registry, op, <<>>)
                ELSE RegistryGetArity(registry, op, 0)
    IN IF zero # NoOverload /\ stack # <<>> THEN SearchResult("selected", zero, <<>>)
       ELSE SearchLoop(registry, op, stack, 1)

\* a search that tries the handlers of most operands first
search_registery_widest_first(registry, op, stack) ==
    LET zero == IF RegistryGetSignature(registry, op, <<>>) # NoOverload
                THEN RegistryGetSignature(registry, op, <<>>)
                ELSE RegistryGetArity(registry, op, 0)
        matching == {n \in 1..Len(stack) :
                        SearchStep(registry, op, SubSeq(stack, 1, n)) # NoOverload}
        widest == SetMax(matching)
    IN IF zero # NoOverload THEN SearchResult("selected", zero, <<>>)
       ELSE IF matching # {}
            THEN SearchResult("selected",
                              SearchStep(registry, op, SubSeq(stack, 1, widest)),
                              SubSeq(stack, 1, widest))
            ELSE SearchLoop(registry, op, stack, 1)

\* _search_registery(op, ctx); stack is ctx's stack, top first
search_registery(registry, op, stack) ==
    LET zero == IF RegistryGetSignature(registry, op, <<>>) # NoOverload
                THEN RegistryGetSignature(registry, op, <<>>)
                ELSE RegistryGetArity(registry, op, 0)
    IN IF zero # NoOverload THEN SearchResult("selected", zero, <<>>)
       ELSE SearchLoop(registry, op, stack, 1)

\* what apply_operator did: the search's outcome, the overload and the
\* peeked values, what the adapter (passed) and the handler (call) received
NoResult ==
    [outcome |-> "", opdata |-> NoOverload, args |-> <<>>, passed |-> <<>>,
     call |-> <<>>, called |-> FALSE, pre |-> <<>>]

(***************************************************************************)
(* Source symbols (the parser's output).  meta is the symbol's position: 0  *)
(* until the parser has set it.                                             *)
(***************************************************************************)
Identifier(name) ==
    [k |-> "Identifier", x |-> name, n |-> 0, body |-> <<>>, meta |-> 0]

\* Literal(type, value): type is a LiteralType; the value is n (Bool, Integer,
\* Float) or body (the characters of a String, the symbols of a compound)
Literal(type, n, body) ==
    [k |-> "Literal", x |-> type, n |-> n, body |-> body, meta |-> 0]

OperatorSym(op) ==
    [k |-> "OperatorSym", x |-> op, n |-> 0, body |-> <<>>, meta |-> 0]

NoSym == [k |-> "", x |-> "", n |-> 0, body |-> <<>>, meta |-> 0]

_simple_literals == {"Bool", "Integer", "Float", "String", "Block"}

_compound_literals == {"Array", "Tuple"}

RECURSIVE get_symbols(_, _)
\* Parser.get_symbols: every symbol gets its position; the symbols nested in
\* a literal get positions below their opening delimiter's
get_symbols(syms, base) ==
    [i \in 1..Len(syms) |->
        [syms[i] EXCEPT
            !.meta = base + i,
            !.body = IF syms[i].k = "Literal"
                        /\ syms[i].x \in (_compound_literals \cup {"Block"})
                     THEN get_symbols(syms[i].body, (base + i) * 10)
                     ELSE syms[i].body]]

\* the identifiers scripts use
Names == {"a", "b", "x"}

(***************************************************************************)
(* The interpreter's state.                                                *)
(***************************************************************************)
VARIABLES
    script,     \* the symbols of the text given to run_script
    ctxs,       \* the ContextFrame objects: parent, _stack, _namespace, _block, flags
    dicts,      \* the dict objects the ChainMaps are made of
    iters,      \* the symbol iterators: the sequence and how much was consumed
    heap,       \* the contents of the ArrayValue objects
    frames,     \* the Python call stack: exec loops and handlers waiting on one
    exc,        \* the exception in flight, or the one that ended the run
    status,     \* "running", "raising", "done", "error"
    steps,      \* number of interpreter steps taken
    last,       \* what the most recent operator application did (history)
    d_registry, \* dispatch in isolation: the registry,
    d_base,     \*   the signature a permute registration declared,
    d_op,       \*   the operator applied,
    d_stack,    \*   the stack it is applied to (top first),
    d_result    \*   and what apply_operator did

ivars == <<script, ctxs, dicts, iters, heap, frames, exc, status, steps, last>>

dvars == <<d_registry, d_base, d_op, d_stack, d_result>>

vars == <<script, ctxs, dicts, iters, heap, frames, exc, status, steps, last,
          d_registry, d_base, d_op, d_stack, d_result>>

\* an empty dict
EmptyDict == [name \in Names |-> None]

\* ContextFrame(runtime, parent, ...): _stack has its TOP at index 1,
\* _namespace is the list of the ChainMap's dicts, _block an iterator or 0
ContextFrame(parent, namespace, flags) ==
    [parent |-> parent, stack |-> <<>>, namespace |-> namespace,
     block |-> 0, flags |-> flags]

\* a frame of the Python call stack
Frame(kind, c, it, sub, vals, n, pre) ==
    [kind |-> kind, ctx |-> c, it |-> it, sub |-> sub, vals |-> vals,
     n |-> n, pre |-> pre, sym |-> NoSym, snap |-> EmptyDict]

\* ScriptError(message, meta, ctx) and its subclasses; meta 0 and ctx 0 are None
ScriptError(kind, message, operands) ==
    [kind |-> kind, message |-> message, operands |-> operands,
     meta |-> 0, ctx |-> 0]

NoExc == ScriptError("", "", <<>>)

\* the subclasses of ScriptError; anything else is a failure of the host
ScriptErrorKinds ==
    {"ScriptError", "ScriptSyntaxError", "ScriptAssignmentError",
     "ScriptOperandError", "ScriptIndexError", "ScriptNameError"}

\* the record of an operator application; at is the step that made it
NoLast ==
    [op |-> "", func |-> "", outcome |-> "", ctx |-> 0, pre |-> <<>>,
     passed |-> <<>>, call |-> <<>>, arity |-> 0, ret |-> <<>>,
     returned |-> FALSE, follow |-> NoSym, target |-> NoSym,
     names |-> <<>>, value |-> None, cond |-> None, truth |-> FALSE,
     peeked |-> <<>>, at |-> 0]

(***************************************************************************)
(* Namespaces (collections.ChainMap over the dicts).                       *)
(***************************************************************************)
RECURSIVE chainmap_get(_, _, _)
\* ChainMap.get(name): the first dict of the chain that holds the name
chainmap_get(ds, namespace, name) ==
    IF namespace = <<>> THEN None
    ELSE IF ds[Head(namespace)][name] # None THEN ds[Head(namespace)][name]
    ELSE chainmap_get(ds, Tail(namespace), name)

\* ChainMap.__setitem__: writes go to the first dict
chainmap_set(ds, namespace, name, value) ==
    [ds EXCEPT ![Head(namespace)][name] = value]

\* what a context sees for every name
Visible(ds, namespace) == [name \in Names |-> chainmap_get(ds, namespace, name)]

\* a child that gets a chain of its own, without the parent's dicts
child_namespace_detached(parentns, share_namespace, newdict) ==
    IF share_namespace THEN parentns ELSE <<newdict>>

\* ContextFrame.__init__: the namespace of a child frame
child_namespace(parentns, share_namespace, newdict) ==
    IF share_namespace THEN parentns ELSE <<newdict>> \o parentns

(***************************************************************************)
(* The stack operations of apply_operator.                                 *)
(***************************************************************************)
\* *reversed(args): the popped values (top first) in bottom-to-top order
call_order(popped) == Reverse(popped)

\* push_stack of every returned value, in the order returned
push_all(stack, ret) == Reverse(ret) \o stack

\* isinstance(value, DataValue): ArrayValue, NameValue and IndexValue are
\* ScriptValues that are not DataValues
IsDataValue(v) == v.t \in {"bool", "int", "float", "string", "tuple", "block"}

\* apply_operator meets a returned value that is not a DataValue
Rejected(ret) == \E i \in 1..Len(ret) : ~IsDataValue(ret[i])

\* the returned values apply_operator pushes: all of them, or those returned
\* before the first one it rejects
Accepted(ret) ==
    IF Rejected(ret)
    THEN SubSeq(ret, 1, (CHOOSE i \in 1..Len(ret) :
                            /\ ~IsDataValue(ret[i])
                            /\ \A j \in 1..(i - 1) : IsDataValue(ret[j])) - 1)
    ELSE ret

(***************************************************************************)
(* Handlers that only compute their results from their arguments.          *)
(***************************************************************************)
Ok(ret) == [exc |-> NoExc, ret |-> ret]

Fail(e) == [exc |-> e, ret |-> <<>>]

\* coerce_number: Float wins over Int
coerce_number(a, b) == IF a.t = "float" \/ b.t = "float" THEN "float" ELSE "int"

\* a number's value in halves
halves(v) == IF v.t = "float" THEN v.n ELSE 2 * v.n

\* rtype(value) for a value given in halves (int() truncates towards zero)
number(rtype, h) ==
    IF rtype = "float" THEN FloatValue(h)
    ELSE IntValue(IF h >= 0 THEN h \div 2 ELSE -((-h) \div 2))

\* Python's a / b for numbers given in halves, in halves; exact where the
\* quotient is a whole number of halves
truediv(ha, hb) ==
    LET q == (2 * (IF ha < 0 THEN -ha ELSE ha)) \div (IF hb < 0 THEN -hb ELSE hb)
    IN IF (ha < 0) = (hb < 0) THEN q ELSE -q

\* Python's a % b for ints: the result has the sign of b
pymod(a, b) == IF b > 0 THEN a % b ELSE -((-a) % (-b))

\* the ZeroDivisionError Python raises for a / 0 and a % 0
ZeroDivisionError ==
    [kind |-> "ZeroDivisionError", message |-> "division by zero",
     operands |-> <<>>, meta |-> 0, ctx |-> 0]

\* operator_div: rtype(a.value / b.value)
operator_div(a, b) ==
    IF halves(b) = 0 THEN Fail(ZeroDivisionError)
    ELSE Ok(<<number(coerce_number(a, b), truediv(halves(a), halves(b)))>>)

\* operator_mod: Ints only, rtype(a.value % b.value)
operator_mod(a, b) ==
    IF a.t # "int" \/ b.t # "int"
    THEN Fail(ScriptError("ScriptOperandError", "unsupported operand types", <<a, b>>))
    ELSE IF b.n = 0 THEN Fail(ZeroDivisionError)
    ELSE Ok(<<IntValue(pymod(a.n, b.n))>>)

\* list(seq) for a SequenceValue: StringValue.__iter__, TupleValue.__iter__,
\* ArrayValue.__iter__
items(v, hp) ==
    CASE v.t = "string" -> [i \in 1..Len(v.s) |-> StringValue(<<v.s[i]>>)]
      [] v.t = "tuple" -> v.s
      [] v.t = "array" -> hp[v.n]

\* the Python number a Bool, Int or Float holds, in halves (True is 1)
as_number(v) == IF v.t = "bool" THEN 2 * v.n ELSE halves(v)

RECURSIVE value_eq(_, _, _)
RECURSIVE element_eq(_, _, _)
\* a == b: BoolValue.__eq__ compares with bool(b), DataValue.__eq__ compares
\* the values the two hold (numbers, str, the tuple of a Tuple or of a Block),
\* ScriptValue.__eq__ is identity
value_eq(a, b, hp) ==
    IF a.t = "bool" THEN (a.n = 1) = bool(b, hp)
    ELSE IF ~IsDataValue(a) \/ ~IsDataValue(b) THEN a.t = b.t /\ a = b
    ELSE IF a.t \in {"int", "float"}
         THEN b.t \in {"bool", "int", "float"} /\ as_number(a) = as_number(b)
    ELSE IF a.t = "string"
         THEN b.t = "string" /\ a.s = b.s
    ELSE /\ b.t \in {"tuple", "block"}
         /\ Len(a.s) = Len(b.s)
         /\ \A i \in 1..Len(a.s) : element_eq(a.s[i], b.s[i], hp)

\* x == y for two elements of Python tuples: values, or the symbols a Block
\* holds (NamedTuples, which leave the comparison with a value to the value)
element_eq(x, y, hp) ==
    LET xv == "t" \in DOMAIN x
        yv == "t" \in DOMAIN y
    IN IF xv /\ yv THEN value_eq(x, y, hp)
       ELSE IF xv THEN x.t = "bool" /\ x.n = 1
       ELSE IF yv THEN y.t = "bool" /\ y.n = 1
       ELSE x = y

\* item in seq: SequenceValue.__contains__
contains(seq, item, hp) ==
    \E i \in 1..Len(items(seq, hp)) : value_eq(item, items(seq, hp)[i], hp)

\* the AttributeError Python raises for a.value on an ArrayValue, whose
\* only slot is _contents
AttributeError ==
    [kind |-> "AttributeError", message |-> "'ArrayValue' object has no attribute 'value'",
     operands |-> <<>>, meta |-> 0, ctx |-> 0]

\* operator_diff: a new Tuple for a Tuple; for an Array the loop over b
\* evaluates a.value.remove(item)
operator_diff(a, b, hp) ==
    IF a.t = "tuple"
    THEN Ok(<<TupleValue(SelectSeq(a.s, LAMBDA item : ~contains(b, item, hp)))>>)
    ELSE IF items(b, hp) # <<>> THEN Fail(AttributeError)
    ELSE Ok(<<a>>)

\* operator_not
operator_not(a, hp) == BoolValue(~bool(a, hp))

PureFuncs ==
    {"operator_drop", "operator_add", "operator_sub", "operator_lt",
     "operator_le", "operator_gt", "operator_ge", "operator_equal_numeric",
     "operator_ne_numeric", "operator_not", "operator_bitand_bool",
     "operator_bitor_bool", "operator_bitxor_bool", "operator_unpack",
     "operator_size", "operator_div", "operator_mod", "operator_diff",
     "operator_equal", "operator_ne", "operator_invert"}

\* operator_invert: Ints only, IntValue(~a.value)
operator_invert(a) ==
    IF a.t # "int"
    THEN Fail(ScriptError("ScriptOperandError", "unsupported operand type", <<a>>))
    ELSE Ok(<<IntValue(-a.n - 1)>>)

\* the values a handler returns for the arguments a (bottom-to-top)
PureResult(func, a, hp) ==
    CASE func = "operator_drop" -> Ok(<<>>)
      [] func = "operator_add" ->
            Ok(<<number(coerce_number(a[1], a[2]), halves(a[1]) + halves(a[2]))>>)
      [] func = "operator_sub" ->
            Ok(<<number(coerce_number(a[1], a[2]), halves(a[1]) - halves(a[2]))>>)
      [] func = "operator_lt" -> Ok(<<BoolValue(halves(a[1]) < halves(a[2]))>>)
      [] func = "operator_le" -> Ok(<<BoolValue(halves(a[1]) <= halves(a[2]))>>)
      [] func = "operator_gt" -> Ok(<<BoolValue(halves(a[1]) > halves(a[2]))>>)
      [] func = "operator_ge" -> Ok(<<BoolValue(halves(a[1]) >= halves(a[2]))>>)
      [] func = "operator_equal_numeric" ->
            Ok(<<BoolValue(halves(a[1]) = halves(a[2]))>>)
      [] func = "operator_ne_numeric" ->
            Ok(<<BoolValue(halves(a[1]) # halves(a[2]))>>)
      [] func = "operator_not" -> Ok(<<operator_not(a[1], hp)>>)
      [] func = "operator_bitand_bool" -> Ok(<<BoolValue(a[1].n = 1 /\ a[2].n = 1)>>)
      [] func = "operator_bitor_bool" -> Ok(<<BoolValue(a[1].n = 1 \/ a[2].n = 1)>>)
      [] func = "operator_bitxor_bool" -> Ok(<<BoolValue(a[1].n # a[2].n)>>)
      [] func = "operator_unpack" -> Ok(items(a[1], hp))
      [] func = "operator_size" -> Ok(<<IntValue(Len(items(a[1], hp)))>>)
      [] func = "operator_div" -> operator_div(a[1], a[2])
      [] func = "operator_mod" -> operator_mod(a[1], a[2])
      [] func = "operator_diff" -> operator_diff(a[1], a[2], hp)
      [] func = "operator_invert" -> operator_invert(a[1])
      [] func = "operator_equal" -> Ok(<<BoolValue(value_eq(a[1], a[2], hp))>>)
      [] func = "operator_ne" -> Ok(<<BoolValue(~value_eq(a[1], a[2], hp))>>)

(***************************************************************************)
(* The running frame.                                                      *)
(***************************************************************************)
\* a cap on the length of a run
MaxSteps == 40

Top == frames[Len(frames)]

Running == status = "running" /\ frames # <<>> /\ steps < MaxSteps

\* the top of the call stack is the for loop of ContextFrame.exec
InExec == Running /\ Top.kind = "exec"

HasNext == iters[Top.it].pos < Len(iters[Top.it].syms)

\* the symbol the for loop takes next
Sym == iters[Top.it].syms[iters[Top.it].pos + 1]

\* the symbol after it in the same stream
Follow ==
    IF iters[Top.it].pos + 2 <= Len(iters[Top.it].syms)
    THEN iters[Top.it].syms[iters[Top.it].pos + 2] ELSE NoSym

C == Top.ctx

Stack == ctxs[C].stack

AtSymbol(k) == InExec /\ HasNext /\ Sym.k = k

Found == search_registery(OP_REGISTRY, Sym.x, Stack)

Opdata == Found.opdata

\* args = [ctx.pop_stack() for i in range(opdata.arity)]
Popped == SubSeq(Stack, 1, Opdata.arity)

Rest == SubSeq(Stack, Opdata.arity + 1, Len(Stack))

\* what opdata.func receives, and what the handler behind an adapter receives
Passed == call_order(Popped)

CallArgs == ReorderFunc(Opdata.permute, Passed)

AtOperator(funcs) ==
    /\ AtSymbol("OperatorSym")
    /\ Found.outcome = "selected"
    /\ Opdata.func \in funcs

\* the for loop has taken Sym: its iterator moved on and the frame works on Sym
Taken == [iters EXCEPT ![Top.it].pos = @ + 1]

Working == [frames EXCEPT ![Len(frames)].sym = Sym]

Popd(fs) == SubSeq(fs, 1, Len(fs) - 1)

\* the record of this application
Applied ==
    [NoLast EXCEPT !.op = Sym.x, !.func = Opdata.func, !.outcome = "selected",
                   !.ctx = C, !.pre = Stack, !.passed = Passed,
                   !.call = CallArgs, !.arity = Opdata.arity,
                   !.follow = Follow, !.at = steps + 1]

\* the objects a step changes together: the contexts, the iterators, the call
\* stack and the namespace dicts
Here == [ctxs |-> ctxs, iters |-> iters, frames |-> frames, dicts |-> dicts]

\* the for loop has taken an operator symbol and apply_operator has popped
\* the handler's arguments
Entered ==
    [ctxs |-> [ctxs EXCEPT ![C].stack = Rest], iters |-> Taken,
     frames |-> Working, dicts |-> dicts]

\* the frame on top has seen its callee return and returns itself
Returned == [Here EXCEPT !.frames = Popd(frames)]

\* ContextFrame.exec(prog) on context c: a fresh iterator becomes c._block
\* and a loop starts on it
exec(b, c, prog) ==
    [b EXCEPT !.ctxs = [b.ctxs EXCEPT ![c].block = Len(b.iters) + 1],
              !.iters = Append(b.iters, [syms |-> prog, pos |-> 0]),
              !.frames = Append(b.frames,
                                Frame("exec", c, Len(b.iters) + 1, 0, <<>>, 0, <<>>))]

\* ContextFrame.create_child with the given flags (ShareNamespace,
\* BlockAssignment); the caller's frame wait is left waiting on the child
create_child(b, c, flags, wait) ==
    LET share == "ShareNamespace" \in flags
        child == ContextFrame(c, child_namespace(b.ctxs[c].namespace, share,
                                                 Len(b.dicts) + 1), flags)
    IN [b EXCEPT !.ctxs = Append(b.ctxs, child),
                 !.dicts = IF share THEN b.dicts ELSE Append(b.dicts, EmptyDict),
                 !.frames = Append(b.frames,
                                   [wait EXCEPT !.sub = Len(b.ctxs) + 1,
                                                !.snap = Visible(b.dicts,
                                                                 b.ctxs[c].namespace)])]

\* the context create_child has just made
Newest(b) == Len(b.ctxs)

\* push_stack of the values vals, in order, on context c
push(b, c, vals) == [b EXCEPT !.ctxs = [b.ctxs EXCEPT ![c].stack = push_all(@, vals)]]

\* the loop of apply_operator over the values the handler returned
push_returned(b, c, ret) == push(b, c, Accepted(ret))

\* the TypeError apply_operator raises for a value it rejects
TypeError ==
    [kind |-> "TypeError", message |-> "invalid object type yielded from operator",
     operands |-> <<>>, meta |-> 0, ctx |-> 0]

Becomes(b) ==
    /\ ctxs' = b.ctxs
    /\ iters' = b.iters
    /\ frames' = b.frames
    /\ dicts' = b.dicts

\* raise e
Raise(e) == status' = "raising" /\ exc' = e

(***************************************************************************)
(* The evaluator.                                                          *)
(***************************************************************************)
\* the for loop of exec ends: exec returns to its caller
ExecReturn ==
    /\ InExec /\ ~HasNext
    /\ frames' = Popd(frames)
    /\ status' = IF Len(frames) = 1 THEN "done" ELSE status
    /\ steps' = steps + 1
    /\ UNCHANGED <<script, ctxs, dicts, iters, heap, exc, last>>
    /\ UNCHANGED dvars

\* inside a block-assignment context an identifier is a binding target
eval_binding_target(c, name) == NameValue(c, name)

\* eval of an Identifier: self._namespace.get(sym.name)
eval_identifier(c, name) == chainmap_get(dicts, ctxs[c].namespace, name)

\* exec takes an Identifier: eval and push, or a name error
EvalIdentifier ==
    /\ AtSymbol("Identifier")
    /\ LET value == IF "BlockAssignment" \in ctxs[C].flags
                    THEN eval_binding_target(C, Sym.x)
                    ELSE eval_identifier(C, Sym.x)
       IN IF value = None
          THEN /\ Raise([ScriptError("ScriptNameError",
                                     "could not resolve identifier", <<>>)
                           EXCEPT !.meta = Sym.meta])
               /\ ctxs' = ctxs
          ELSE /\ ctxs' = [ctxs EXCEPT ![C].stack = <<value>> \o @]
               /\ UNCHANGED <<status, exc>>
    /\ iters' = Taken
    /\ frames' = Working
    /\ steps' = steps + 1
    /\ UNCHANGED <<script, dicts, heap, last>>
    /\ UNCHANGED dvars

\* the constructors of _simple_literals
simple_literal(sym) ==
    CASE sym.x = "Bool" -> BoolValue(sym.n = 1)
      [] sym.x = "Integer" -> IntValue(sym.n)
      [] sym.x = "Float" -> FloatValue(sym.n)
      [] sym.x = "String" -> StringValue(sym.body)
      [] sym.x = "Block" -> BlockValue(sym.body)

\* exec takes a simple literal: eval and push
EvalSimpleLiteral ==
    /\ AtSymbol("Literal") /\ Sym.x \in _simple_literals
    /\ ctxs' = [ctxs EXCEPT ![C].stack = <<simple_literal(Sym)>> \o @]
    /\ iters' = Taken
    /\ frames' = Working
    /\ steps' = steps + 1
    /\ UNCHANGED <<script, dicts, heap, exc, status, last>>
    /\ UNCHANGED dvars

\* eval of a compound literal sym from the state b: a namespace-sharing child
\* executes the payload; the frame "compound" waits for it (n = 1 when
\* operator_assign called eval)
eval_compound(b, sym, forassign) ==
    LET wait == [Frame("compound", C, 0, 0, <<>>, forassign, Stack)
                   EXCEPT !.sym = sym]
        made == create_child(b, C, {"ShareNamespace"}, wait)
    IN exec(made, Newest(made), sym.body)

\* exec takes an Array or Tuple literal
EvalCompoundLiteral ==
    /\ AtSymbol("Literal") /\ Sym.x \in _compound_literals
    /\ Becomes(eval_compound([Here EXCEPT !.iters = Taken, !.frames = Working],
                             Sym, 0))
    /\ steps' = steps + 1
    /\ UNCHANGED <<script, heap, exc, status, last>>
    /\ UNCHANGED dvars

\* an iteration from the top of the stack down, as iter_stack does it
iter_stack_top_down(stack) == stack

\* ContextFrame.iter_stack_result: reversed(self._stack), the bottom first
iter_stack_result(stack) == Reverse(stack)

\* the payload of a compound literal has run: ctor(array_ctx.iter_stack_result())
\* is pushed, or, under operator_assign, refused as an assignment target
CompoundReturn ==
    /\ Running /\ Top.kind = "compound"
    /\ LET result == iter_stack_result(ctxs[Top.sub].stack)
           isarray == Top.sym.x = "Array"
           value == IF isarray THEN ArrayRef(Len(heap) + 1) ELSE TupleValue(result)
       IN /\ heap' = IF isarray THEN Append(heap, result) ELSE heap
          /\ IF Top.n = 0
             THEN /\ ctxs' = [ctxs EXCEPT ![C].stack = <<value>> \o @]
                  /\ UNCHANGED <<status, exc>>
             ELSE /\ Raise(ScriptError("ScriptOperandError",
                                       "invalid operands for assignment", <<>>))
                  /\ ctxs' = ctxs
    /\ frames' = Popd(frames)
    /\ steps' = steps + 1
    /\ UNCHANGED <<script, dicts, iters, last>>
    /\ UNCHANGED dvars

\* apply_operator when _search_registery raises: no handler is called
DispatchError ==
    /\ AtSymbol("OperatorSym")
    /\ Found.outcome # "selected"
    /\ Raise(ScriptError("ScriptOperandError", Found.outcome, Found.args))
    /\ last' = [NoLast EXCEPT !.op = Sym.x, !.outcome = Found.outcome, !.ctx = C,
                              !.pre = Stack, !.peeked = Found.args,
                              !.follow = Follow, !.at = steps + 1]
    /\ iters' = Taken
    /\ frames' = Working
    /\ steps' = steps + 1
    /\ UNCHANGED <<script, ctxs, dicts, heap>>
    /\ UNCHANGED dvars

(***************************************************************************)
(* Indexing, binding targets, and the handlers that read the context.      *)
(***************************************************************************)
OperandError(message, operands) == ScriptError("ScriptOperandError", message, operands)

IndexError(message) == ScriptError("ScriptIndexError", message, <<>>)

\* IntValue.as_index for a non-zero index: 1-indexing to 0-indexing
as_index(i) == IF i < 0 THEN i ELSE i - 1

\* __getitem__ of StringValue, TupleValue and ArrayValue
getitem(seq, index, hp) ==
    LET content == items(seq, hp)
        idx == as_index(index.n)
    IN IF index.n = 0 THEN Fail(IndexError("0 is not a valid index"))
       ELSE IF idx >= Len(content) \/ idx < -Len(content)
            THEN Fail(IndexError("index out of range"))
            ELSE Ok(<<content[IF idx >= 0 THEN idx + 1 ELSE Len(content) + idx + 1]>>)

\* a write that can only replace: no assignment to the end of the array
setitem_no_append(content, index, value) ==
    LET idx == as_index(index)
    IN IF index = 0 THEN Fail(IndexError("0 is not a valid index"))
       ELSE IF idx >= Len(content) \/ idx < -Len(content)
            THEN Fail(IndexError("index out of range"))
            ELSE Ok([content EXCEPT ![IF idx >= 0 THEN idx + 1
                                      ELSE Len(content) + idx + 1] = value])

\* ArrayValue.__setitem__ on the contents; ret holds the new contents
setitem(content, index, value) ==
    LET idx == as_index(index)
    IN IF index = 0 THEN Fail(IndexError("0 is not a valid index"))
       ELSE IF idx = Len(content) THEN Ok(Append(content, value))
       ELSE IF idx > Len(content) \/ idx < -Len(content)
            THEN Fail(IndexError("index out of range"))
            ELSE Ok([content EXCEPT ![IF idx >= 0 THEN idx + 1
                                      ELSE Len(content) + idx + 1] = value])

\* ContextFrame.namespace_lookup: the value a name resolves to
namespace_lookup(c, name) ==
    LET value == chainmap_get(dicts, ctxs[c].namespace, name)
    IN IF value = None
       THEN Fail(ScriptError("ScriptNameError", "could not resolve identifier", <<>>))
       ELSE Ok(<<value>>)

\* BindingTarget.resolve_value of NameValue and IndexValue
resolve_value(target, hp) ==
    IF target.t = "_name" THEN namespace_lookup(target.n, target.s[1])
    ELSE getitem(target.s[1], IntValue(target.n), hp)

\* an operator_dup that returns nothing on the empty stack of a root context
operator_dup_silent(c) ==
    IF ctxs[c].stack # <<>> THEN Ok(<<ctxs[c].stack[1]>>)
    ELSE IF ctxs[c].parent = 0 THEN Ok(<<>>)
    ELSE IF ctxs[ctxs[c].parent].stack = <<>>
         THEN Fail(ScriptError("IndexError", "deque index out of range", <<>>))
         ELSE Ok(<<ctxs[ctxs[c].parent].stack[1]>>)

\* operator_dup
operator_dup(c) ==
    IF ctxs[c].stack # <<>> THEN Ok(<<ctxs[c].stack[1]>>)
    ELSE IF ctxs[c].parent = 0 THEN Fail(OperandError("not enough operands", <<>>))
    ELSE IF ctxs[ctxs[c].parent].stack = <<>>
         THEN Fail(ScriptError("IndexError", "deque index out of range", <<>>))
         ELSE Ok(<<ctxs[ctxs[c].parent].stack[1]>>)

\* operator_index on (Array, Number) and (String, Number)
operator_index(c, seq, index, hp) ==
    IF index.t # "int" THEN Fail(OperandError("unsupported operand type", <<index>>))
    ELSE IF index.n = 0 THEN Fail(IndexError("0 is not a valid index"))
    ELSE IF "BlockAssignment" \in ctxs[c].flags
         THEN IF seq.t # "array"
              THEN Fail(OperandError("unsupported operand type", <<seq>>))
              ELSE Ok(<<IndexValue(seq, index)>>)
         ELSE getitem(seq, index, hp)

\* operator_index on (Array, Name), (Name, Name) and (Name, Number)
operator_index_name(array, index, hp) ==
    LET i == IF IsBindingTarget(index) THEN resolve_value(index, hp) ELSE Ok(<<index>>)
        a == IF IsBindingTarget(array) THEN resolve_value(array, hp) ELSE Ok(<<array>>)
    IN IF i.exc # NoExc THEN i
       ELSE IF i.ret[1].t # "int"
            THEN Fail(OperandError("unsupported operand type", i.ret))
       ELSE IF a.exc # NoExc THEN a
       ELSE IF a.ret[1].t # "array"
            THEN Fail(OperandError("unsupported operand type", a.ret))
       ELSE IF i.ret[1].n = 0 THEN Fail(IndexError("0 is not a valid index"))
       ELSE Ok(<<IndexValue(a.ret[1], i.ret[1])>>)

\* the handlers that return their results without changing the context
SimpleFuncs == PureFuncs \cup {"operator_dup", "operator_index", "operator_index_name"}

\* what the handler func, called on context c with the arguments a, returns
HandlerResult(func, c, a, hp) ==
    CASE func = "operator_dup" -> operator_dup(c)
      [] func = "operator_index" -> operator_index(c, a[1], a[2], hp)
      [] func = "operator_index_name" -> operator_index_name(a[1], a[2], hp)
      [] OTHER -> PureResult(func, a, hp)

\* apply_operator with a handler that returns its results: the arguments are
\* popped, the handler is called with them, its results are pushed
ApplyHandler ==
    /\ AtOperator(SimpleFuncs)
    /\ LET r == HandlerResult(Opdata.func, C, CallArgs, heap)
       IN IF r.exc # NoExc
          THEN /\ ctxs' = [ctxs EXCEPT ![C].stack = Rest]
               /\ Raise(r.exc)
               /\ last' = Applied
          ELSE /\ ctxs' = [ctxs EXCEPT ![C].stack = push_all(Rest, Accepted(r.ret))]
               /\ last' = [Applied EXCEPT !.ret = r.ret, !.returned = TRUE]
               /\ IF Rejected(r.ret) THEN Raise(TypeError)
                  ELSE UNCHANGED <<status, exc>>
    /\ iters' = Taken
    /\ frames' = Working
    /\ steps' = steps + 1
    /\ UNCHANGED <<script, dicts, heap>>
    /\ UNCHANGED dvars

RECURSIVE repeat_each(_, _)
\* data for data in array for i in range(n): every element in turn, n times
\* each
repeat_each(content, n) ==
    IF content = <<>> THEN <<>>
    ELSE [i \in 1..(IF n > 0 THEN n ELSE 0) |-> Head(content)]
         \o repeat_each(Tail(content), n)

\* the TypeError Python raises for range() of a float
RangeTypeError ==
    [kind |-> "TypeError", message |-> "'float' object cannot be interpreted as an integer",
     operands |-> <<>>, meta |-> 0, ctx |-> 0]

\* operator_repeat on (Number, Array), in either order of the operands:
\* ctor(data for data in array for i in range(repeat.value)); the sequence
\* made is a new Tuple or a new ArrayValue
RepeatArray ==
    /\ AtOperator({"operator_repeat_array"})
    /\ LET repeat == CallArgs[1]
           array == CallArgs[2]
           content == repeat_each(items(array, heap), repeat.n)
           made == IF array.t = "tuple" THEN TupleValue(content)
                   ELSE ArrayRef(Len(heap) + 1)
       IN IF repeat.t # "int"
          THEN /\ ctxs' = [ctxs EXCEPT ![C].stack = Rest]
               /\ Raise(RangeTypeError)
               /\ last' = Applied
               /\ heap' = heap
          ELSE /\ heap' = IF array.t = "tuple" THEN heap ELSE Append(heap, content)
               /\ ctxs' = [ctxs EXCEPT ![C].stack = push_all(Rest, Accepted(<<made>>))]
               /\ last' = [Applied EXCEPT !.ret = <<made>>, !.returned = TRUE]
               /\ IF Rejected(<<made>>) THEN Raise(TypeError)
                  ELSE UNCHANGED <<status, exc>>
    /\ iters' = Taken
    /\ frames' = Working
    /\ steps' = steps + 1
    /\ UNCHANGED <<script, dicts>>
    /\ UNCHANGED dvars

\* operator_break: ctx.clear_stack()
Break ==
    /\ AtOperator({"operator_break"})
    /\ ctxs' = [ctxs EXCEPT ![C].stack = <<>>]
    /\ last' = Applied
    /\ iters' = Taken
    /\ frames' = Working
    /\ steps' = steps + 1
    /\ UNCHANGED <<script, dicts, heap, status, exc>>
    /\ UNCHANGED dvars

\* operator_eval on a block: block.apply_exec(ctx) runs it in the current context
Eval ==
    /\ AtOperator({"operator_eval"})
    /\ Becomes(exec(Entered, C, CallArgs[1].s))
    /\ last' = Applied
    /\ steps' = steps + 1
    /\ UNCHANGED <<script, heap, status, exc>>
    /\ UNCHANGED dvars

\* operator_repeat on (Number, Exec): for i in range(repeat.value)
Repeat ==
    /\ AtOperator({"operator_repeat"})
    /\ IF CallArgs[1].t = "float"
       THEN /\ Raise(ScriptError("TypeError", "float object cannot be interpreted", <<>>))
            /\ Becomes(Entered)
       ELSE /\ Becomes([Entered EXCEPT !.frames =
                          Append(@, Frame("operator_repeat", C, 0, 0,
                                          <<CallArgs[2]>>, CallArgs[1].n, Stack))])
            /\ UNCHANGED <<status, exc>>
    /\ last' = Applied
    /\ steps' = steps + 1
    /\ UNCHANGED <<script, heap>>
    /\ UNCHANGED dvars

\* the loop of operator_repeat: one more block.apply_exec(ctx), or the end
RepeatNext ==
    /\ Running /\ Top.kind = "operator_repeat"
    /\ IF Top.n > 0
       THEN Becomes(exec([Here EXCEPT !.frames[Len(frames)].n = @ - 1],
                         C, Top.vals[1].s))
       ELSE Becomes(Returned)
    /\ steps' = steps + 1
    /\ UNCHANGED <<script, heap, status, exc, last>>
    /\ UNCHANGED dvars

\* operator_invoke and operator_compose: a child context of its own gets arg
\* and runs the block
Invoke ==
    /\ AtOperator({"operator_invoke", "operator_compose"})
    /\ IF ~IsCtxExecValue(CallArgs[2])
       THEN /\ Raise(OperandError("unsupported operand type", <<CallArgs[2]>>))
            /\ Becomes(Entered)
       ELSE /\ LET wait == Frame(Opdata.func, C, 0, 0, <<>>, 0, Stack)
                   made == create_child(Entered, C, {}, wait)
                   sub == Newest(made)
               IN Becomes(exec(push(made, sub, <<CallArgs[1]>>), sub, CallArgs[2].s))
            /\ UNCHANGED <<status, exc>>
    /\ last' = Applied
    /\ steps' = steps + 1
    /\ UNCHANGED <<script, heap>>
    /\ UNCHANGED dvars

\* the block of operator_invoke or operator_compose has run: the child's
\* iter_stack_result() is pushed, as it is or as one tuple
InvokeReturn ==
    /\ Running /\ Top.kind \in {"operator_invoke", "operator_compose"}
    /\ LET result == Reverse(ctxs[Top.sub].stack)
           ret == IF Top.kind = "operator_invoke" THEN result
                  ELSE <<TupleValue(result)>>
       IN /\ Becomes(push_returned(Returned, C, ret))
          /\ IF Rejected(ret) THEN Raise(TypeError) ELSE UNCHANGED <<status, exc>>
          /\ last' = [NoLast EXCEPT !.func = Top.kind, !.ctx = C, !.pre = Top.pre,
                                    !.ret = ret, !.at = steps + 1]
    /\ steps' = steps + 1
    /\ UNCHANGED <<script, heap>>
    /\ UNCHANGED dvars

(***************************************************************************)
(* Assignment.                                                             *)
(***************************************************************************)
\* ContextFrame.namespace_bind_value: bind the name in the context's namespace
namespace_bind_value(ds, namespace, name, value) ==
    chainmap_set(ds, namespace, name, value)

Bound(e, ds, hp) == [exc |-> e, dicts |-> ds, heap |-> hp]

\* BindingTarget.bind_value(ctx, value) of NameValue and IndexValue
bind_value(target, c, value, ds, hp) ==
    IF target.t = "_name"
    THEN Bound(NoExc, namespace_bind_value(ds, ctxs[c].namespace, target.s[1], value), hp)
    ELSE LET r == setitem(hp[target.s[1].n], target.n, value)
         IN IF r.exc # NoExc THEN Bound(r.exc, ds, hp)
            ELSE Bound(NoExc, ds, [hp EXCEPT ![target.s[1].n] = r.ret])

RECURSIVE bind_each(_, _, _, _, _)
\* for name, value in zip(names, values): name.bind_value(ctx, value)
bind_each(names, values, c, ds, hp) ==
    IF names = <<>> \/ values = <<>> THEN Bound(NoExc, ds, hp)
    ELSE LET r == bind_value(Head(names), c, Head(values), ds, hp)
         IN IF r.exc # NoExc THEN r
            ELSE bind_each(Tail(names), Tail(values), c, r.dicts, r.heap)

AssignmentError(message) == ScriptError("ScriptAssignmentError", message, <<>>)

\* a multiple assignment that binds as many targets as there are values
do_block_assignment_unchecked(names, value, c, ds, hp) ==
    IF \E i \in 1..Len(names) : ~IsBindingTarget(names[i])
    THEN Bound(AssignmentError("cannot assign to a non-identifier"), ds, hp)
    ELSE IF Len(names) = 1 THEN bind_value(names[1], c, value, ds, hp)
    ELSE IF Len(names) = 0 THEN Bound(NoExc, ds, hp)
    ELSE IF ~IsSequenceValue(value)
         THEN Bound(AssignmentError("value does not support multiple assignment"), ds, hp)
    ELSE bind_each(names, items(value, hp), c, ds, hp)

\* _do_block_assignment once the block has run: names is the sub-context's
\* iter_stack_result()
do_block_assignment(names, value, c, ds, hp) ==
    IF \E i \in 1..Len(names) : ~IsBindingTarget(names[i])
    THEN Bound(AssignmentError("cannot assign to a non-identifier"), ds, hp)
    ELSE IF Len(names) = 0 THEN Bound(NoExc, ds, hp)
    ELSE IF Len(names) = 1 THEN bind_value(names[1], c, value, ds, hp)
    ELSE IF ~IsSequenceValue(value)
         THEN Bound(AssignmentError("value does not support multiple assignment"), ds, hp)
    ELSE IF Len(items(value, hp)) # Len(names)
         THEN Bound(AssignmentError("values to unpack"), ds, hp)
    ELSE bind_each(names, items(value, hp), c, ds, hp)

\* a peek that answers with the value at the bottom of the stack
peek_stack_bottom(stack) == stack[Len(stack)]

\* ContextFrame.peek_stack(): the value on top
peek_stack(stack) == stack[1]

\* ContextFrame.get_symbol_iter: self._block
get_symbol_iter(c) == ctxs[c].block

\* operator_assign: the target is next(ctx.get_symbol_iter())
Assign ==
    /\ AtOperator({"operator_assign"})
    /\ LET it == get_symbol_iter(C)
           exhausted == Taken[it].pos >= Len(Taken[it].syms)
           next_sym == Taken[it].syms[Taken[it].pos + 1]
           after == [Entered EXCEPT !.iters[it].pos = @ + 1]
           seen == [Applied EXCEPT !.target = next_sym]
       IN IF Stack = <<>>
          THEN /\ Raise(OperandError("not enough operands", <<>>))
               /\ Becomes(Entered)
               /\ last' = Applied
          ELSE IF exhausted
          THEN /\ Raise(ScriptError("ScriptSyntaxError", "invalid syntax", <<>>))
               /\ Becomes(Entered)
               /\ last' = Applied
          ELSE IF next_sym.k = "Identifier"
          THEN /\ Becomes([after EXCEPT !.dicts =
                             namespace_bind_value(dicts, ctxs[C].namespace,
                                                  next_sym.x, peek_stack(Stack))])
               /\ last' = [seen EXCEPT !.returned = TRUE]
               /\ UNCHANGED <<status, exc>>
          ELSE IF next_sym.k = "Literal" /\ next_sym.x = "Block"
          THEN /\ LET wait == Frame("_do_block_assignment", C, 0, 0,
                                    <<peek_stack(Stack)>>, 0, Stack)
                      made == create_child(after, C, {"BlockAssignment"}, wait)
                  IN Becomes(exec(made, Newest(made), next_sym.body))
               /\ last' = seen
               /\ UNCHANGED <<status, exc>>
          ELSE IF next_sym.k = "Literal" /\ next_sym.x \in _compound_literals
          THEN /\ Becomes(eval_compound(after, next_sym, 1))
               /\ last' = seen
               /\ UNCHANGED <<status, exc>>
          ELSE /\ Raise(OperandError("invalid operands for assignment", <<>>))
               /\ Becomes(after)
               /\ last' = seen
    /\ steps' = steps + 1
    /\ UNCHANGED <<script, heap>>
    /\ UNCHANGED dvars

\* the block of a block assignment has run in its sub-context: the targets
\* it left are bound
AssignReturn ==
    /\ Running /\ Top.kind = "_do_block_assignment"
    /\ LET names == Reverse(ctxs[Top.sub].stack)
           r == do_block_assignment(names, Top.vals[1], C, dicts, heap)
       IN /\ dicts' = r.dicts
          /\ heap' = r.heap
          /\ IF r.exc # NoExc THEN Raise(r.exc) ELSE UNCHANGED <<status, exc>>
          /\ last' = [NoLast EXCEPT !.func = "_do_block_assignment", !.ctx = C,
                                    !.pre = Top.pre, !.names = names,
                                    !.value = Top.vals[1], !.outcome = r.exc.kind,
                                    !.returned = (r.exc = NoExc),
                                    !.at = steps + 1]
    /\ frames' = Popd(frames)
    /\ steps' = steps + 1
    /\ UNCHANGED <<script, ctxs, iters>>
    /\ UNCHANGED dvars

(***************************************************************************)
(* Control flow and short-circuiting logic.                                *)
(***************************************************************************)
ShortcircuitFuncs == {"operator_and", "operator_or", "operator_if", "operator_while"}

\* operator_and, operator_or, operator_if and operator_while are called: the
\* handler's frame holds its operands (vals) and which one it evaluates (n)
Shortcircuit ==
    /\ AtOperator(ShortcircuitFuncs)
    /\ Becomes([Entered EXCEPT !.frames =
                  Append(@, Frame(Opdata.func, C, 0, 0, CallArgs, 1, Stack))])
    /\ last' = Applied
    /\ steps' = steps + 1
    /\ UNCHANGED <<script, heap, status, exc>>
    /\ UNCHANGED dvars

\* the operand a handler hands to _shortcircuit_eval next
ShortcircuitOperand ==
    IF Top.kind \in {"operator_and", "operator_or"} THEN Top.vals[(Top.n + 1) \div 2]
    ELSE Top.vals[1]

\* _shortcircuit_eval(ctx, o, name): a CtxExecValue runs in a child that
\* shares the namespace; any other value is the result as it is
ShortcircuitEval ==
    /\ Running /\ Top.kind \in ShortcircuitFuncs /\ Top.n \in {1, 3}
    /\ LET o == ShortcircuitOperand
       IN IF IsCtxExecValue(o)
          THEN LET wait == Frame("_shortcircuit_eval", C, 0, 0, <<o>>, 0, Stack)
                   made == create_child(Here, C, {"ShareNamespace"}, wait)
               IN Becomes(exec(made, Newest(made), o.s))
          ELSE Becomes([Here EXCEPT !.frames[Len(frames)].vals = Append(@, o),
                                    !.frames[Len(frames)].n = @ + 1])
    /\ steps' = steps + 1
    /\ UNCHANGED <<script, heap, status, exc, last>>
    /\ UNCHANGED dvars

\* a test that only refuses the empty stack
not_single_value_empty(stack) == stack = <<>>

\* _shortcircuit_eval: sub_ctx.stack_size() != 1
not_single_value(stack) == Len(stack) # 1

\* the block run by _shortcircuit_eval has run: one value, or an error
ShortcircuitReturn ==
    /\ Running /\ Top.kind = "_shortcircuit_eval"
    /\ IF not_single_value(ctxs[Top.sub].stack)
       THEN /\ Raise(OperandError("did not evaluate to a single value", Top.vals))
            /\ frames' = Popd(frames)
       ELSE /\ frames' = [Popd(frames) EXCEPT
                            ![Len(frames) - 1].vals = Append(@, ctxs[Top.sub].stack[1]),
                            ![Len(frames) - 1].n = @ + 1]
            /\ UNCHANGED <<status, exc>>
    /\ steps' = steps + 1
    /\ UNCHANGED <<script, ctxs, dicts, iters, heap, last>>
    /\ UNCHANGED dvars

\* the record of a handler that decided on the truth of the value cond
Decided(cond) ==
    [NoLast EXCEPT !.func = Top.kind, !.ctx = C, !.pre = Top.pre,
                   !.cond = cond, !.truth = bool(cond, heap), !.at = steps + 1]

\* operator_and and operator_or once an operand is evaluated: short-circuit
\* on the left one, or go on to the right one, whose value is the result
AndOr ==
    /\ Running /\ Top.kind \in {"operator_and", "operator_or"} /\ Top.n \in {2, 4}
    /\ LET a == Top.vals[Len(Top.vals)]
           short == IF Top.kind = "operator_and" THEN ~bool(a, heap)
                    ELSE bool(a, heap)
       IN IF Top.n = 4 \/ short
          THEN /\ Becomes(push_returned(Returned, C, <<a>>))
               /\ last' = [Decided(Top.vals[3]) EXCEPT !.ret = <<a>>]
               /\ IF Rejected(<<a>>) THEN Raise(TypeError)
                  ELSE UNCHANGED <<status, exc>>
          ELSE /\ Becomes([Here EXCEPT !.frames[Len(frames)].n = 3])
               /\ last' = last
               /\ UNCHANGED <<status, exc>>
    /\ steps' = steps + 1
    /\ UNCHANGED <<script, heap>>
    /\ UNCHANGED dvars

\* operator_if once cond is evaluated: the chosen operand runs in the current
\* context when it is a block, and is the result otherwise
If ==
    /\ Running /\ Top.kind = "operator_if" /\ Top.n = 2
    /\ LET cond == Top.vals[4]
           result == IF bool(cond, heap) THEN Top.vals[2] ELSE Top.vals[3]
       IN /\ IF IsCtxExecValue(result)
             THEN /\ Becomes(exec([Here EXCEPT !.frames[Len(frames)].n = 4],
                                  C, result.s))
                  /\ UNCHANGED <<status, exc>>
             ELSE /\ Becomes(push_returned(Returned, C, <<result>>))
                  /\ IF Rejected(<<result>>) THEN Raise(TypeError)
                     ELSE UNCHANGED <<status, exc>>
          /\ last' = [Decided(cond) EXCEPT !.ret = <<result>>]
    /\ steps' = steps + 1
    /\ UNCHANGED <<script, heap>>
    /\ UNCHANGED dvars

\* the block chosen by operator_if has run: return ()
IfReturn ==
    /\ Running /\ Top.kind = "operator_if" /\ Top.n = 4
    /\ Becomes(Returned)
    /\ steps' = steps + 1
    /\ UNCHANGED <<script, heap, status, exc, last>>
    /\ UNCHANGED dvars

\* operator_while once cond is evaluated: run the body in the current context
\* and evaluate cond again, or return ()
While ==
    /\ Running /\ Top.kind = "operator_while" /\ Top.n = 2
    /\ LET cond == Top.vals[3]
       IN /\ IF bool(cond, heap)
             THEN Becomes(exec([Here EXCEPT
                                  !.frames[Len(frames)].vals = SubSeq(@, 1, 2),
                                  !.frames[Len(frames)].n = 1],
                               C, Top.vals[2].s))
             ELSE Becomes(Returned)
          /\ last' = Decided(cond)
    /\ steps' = steps + 1
    /\ UNCHANGED <<script, heap, status, exc>>
    /\ UNCHANGED dvars

\* operator_do is called: ctx.exec(block)
Do ==
    /\ AtOperator({"operator_do"})
    /\ Becomes(exec([Entered EXCEPT !.frames =
                       Append(@, Frame("operator_do", C, 0, 0, CallArgs, 0, Stack))],
                    C, CallArgs[1].s))
    /\ last' = Applied
    /\ steps' = steps + 1
    /\ UNCHANGED <<script, heap, status, exc>>
    /\ UNCHANGED dvars

\* a loop test that goes on for a falsy value and stops for a truthy one
do_repeats_inverted(stack, hp) == ~bool(stack[1], hp)

\* operator_do: while bool(ctx.pop_stack())
do_repeats(stack, hp) == bool(stack[1], hp)

\* the loop of operator_do: while bool(ctx.pop_stack()): ctx.exec(block)
DoNext ==
    /\ Running /\ Top.kind = "operator_do"
    /\ IF Stack = <<>>
       THEN /\ Raise(ScriptError("ScriptError", "stack is empty", <<>>))
            /\ Becomes(Returned)
            /\ last' = last
       ELSE /\ LET popped == [Here EXCEPT !.ctxs[C].stack = Tail(@)]
               IN IF do_repeats(Stack, heap)
                  THEN Becomes(exec(popped, C, Top.vals[1].s))
                  ELSE Becomes([popped EXCEPT !.frames = Popd(frames)])
            /\ last' = Decided(Stack[1])
            /\ UNCHANGED <<status, exc>>
    /\ steps' = steps + 1
    /\ UNCHANGED <<script, heap>>
    /\ UNCHANGED dvars

(***************************************************************************)
(* Exceptions.                                                             *)
(***************************************************************************)
\* an except clause that gives the error the symbol of every exec it leaves
annotate_always(e, frame) ==
    IF frame.kind = "exec" /\ e.kind \in ScriptErrorKinds
    THEN [e EXCEPT !.meta = frame.sym.meta, !.ctx = frame.ctx]
    ELSE e

\* the except clause of exec: a ScriptError without meta or ctx gets the
\* symbol's and the context's, and is raised again
annotate(e, frame) ==
    IF frame.kind = "exec" /\ e.kind \in ScriptErrorKinds
    THEN [e EXCEPT !.meta = IF @ = 0 THEN frame.sym.meta ELSE @,
                   !.ctx = IF @ = 0 THEN frame.ctx ELSE @]
    ELSE e

\* the exception in flight leaves the frame on top; out of run_script it
\* ends the run
Unwind ==
    /\ status = "raising"
    /\ IF frames = <<>>
       THEN /\ status' = "error"
            /\ UNCHANGED <<frames, exc>>
       ELSE /\ exc' = annotate(exc, Top)
            /\ frames' = Popd(frames)
            /\ status' = status
    /\ UNCHANGED <<script, ctxs, dicts, iters, heap, steps, last>>
    /\ UNCHANGED dvars

(***************************************************************************)
(* The scripts that are run.                                               *)
(***************************************************************************)
Integer(i) == Literal("Integer", i, <<>>)

Float(h) == Literal("Float", h, <<>>)

Bool(b) == Literal("Bool", IF b THEN 1 ELSE 0, <<>>)

String(chars) == Literal("String", 0, chars)

Block(body) == Literal("Block", 0, body)

Array(body) == Literal("Array", 0, body)

Tuple(body) == Literal("Tuple", 0, body)

Op(op) == OperatorSym(op)

Id(name) == Identifier(name)

\* literals of every type, zero, empty and not
Operands ==
    {Integer(0), Integer(MaxInt), Float(0), Float(1), Bool(TRUE), Bool(FALSE),
     String(<<>>), String(<<"a", "b">>), Array(<<>>),
     Array(<<Integer(1), Integer(2)>>), Tuple(<<>>),
     Block(<<>>), Block(<<Bool(FALSE)>>), Block(<<Integer(0)>>)}

\* operators whose handlers for these operands are all part of the model
OperandOps ==
    {"Dup", "Drop", "Break", "LT", "GE", "Not", "And", "Or", "Size", "Index",
     "RShift", "Do", "While", "Assign"}

\* what may follow: nothing, or an assignment of what is on top
Suffixes == {<<>>, <<Op("Assign"), Id("x")>>, <<Op("Assign"), Id("x"), Id("x")>>}

\* two operands, an operator, and what follows
OperandScripts ==
    {<<v, w, Op(o)>> \o f : v \in Operands, w \in Operands, o \in OperandOps,
                            f \in Suffixes}

\* cond if_true if_false ?
IfScripts ==
    {<<c, v, w, Op("If")>> \o f :
        c \in {Integer(0), Bool(TRUE), Bool(FALSE), Block(<<>>), Block(<<Bool(FALSE)>>)},
        v \in {Integer(1), Block(<<Integer(1)>>),
               Block(<<Integer(2), Op("Assign"), Id("a")>>)},
        w \in {String(<<>>), Block(<<>>), Array(<<>>)},
        f \in Suffixes}

\* the targets a block assignment is given
Targets ==
    {<<>>, <<Id("a")>>, <<Id("a"), Id("b")>>, <<Id("a"), Id("a")>>,
     <<Integer(1)>>, <<Id("a"), Integer(1)>>, <<Id("a"), Id("b"), Id("x")>>,
     <<Id("a"), Block(<<>>), Op("Mod")>>,
     <<Id("a"), Block(<<Op("Dup")>>), Op("BitOr")>>,
     <<Id("a"), Array(<<Op("Dup")>>)>>,
     <<Id("a"), Tuple(<<Id("b")>>)>>,
     <<Id("a"), Op("Dup")>>,
     <<Id("a"), Id("b"), Op("Drop")>>,
     <<Id("b"), Id("a"), Op("Index")>>,
     <<Id("b"), Integer(1), Op("Index")>>,
     <<Id("b"), Integer(MaxInt + 1), Op("Index")>>,
     <<Id("b"), Integer(1), Op("Index"), Id("b"), Integer(2), Op("Index")>>}

\* a: 1, b: [1 2], then value : { targets } and a look at what got bound
AssignScripts ==
    {<<Integer(1), Op("Assign"), Id("a"),
       Array(<<Integer(1), Integer(2)>>), Op("Assign"), Id("b"), Op("Break"),
       v, Op("Assign"), Block(t)>> \o f :
        v \in {Integer(0), Array(<<Integer(2), Integer(1)>>), Array(<<Integer(0)>>),
               Tuple(<<Integer(2), Integer(0)>>), String(<<"a", "b">>),
               Array(<<Integer(0), Integer(1), Integer(2)>>)},
        t \in Targets,
        f \in {<<>>, <<Id("a"), Id("b")>>}}

\* blocks run in the current context, in a child of its own, in a child that
\* shares the namespace; assignments inside and after them
BlockScripts ==
    {<<Integer(1), Op("Assign"), Id("x"), Integer(2)>> \o run \o f :
        run \in {<<Block(<<Op("Assign"), Id("x")>>), Op("Mod")>>,
                 <<Block(<<Op("Assign"), Id("a"), Id("x")>>), Op("BitOr")>>,
                 <<Block(<<Op("Assign"), Id("x")>>), Op("Eval")>>,
                 <<Block(<<>>), Op("Eval")>>,
                 <<Block(<<Op("Dup")>>), Op("Mul")>>,
                 <<Block(<<Id("x")>>), Integer(2), Op("Mul")>>,
                 <<Array(<<Integer(0), Op("Assign"), Id("x")>>)>>,
                 <<Tuple(<<Op("Dup"), Op("Assign"), Id("a")>>)>>,
                 <<Array(<<Integer(0), Block(<<Op("Assign"), Id("x")>>), Op("Mod")>>)>>,
                 <<Block(<<Integer(0), Op("Assign"), Id("x"), Bool(FALSE)>>),
                   Block(<<Integer(1)>>), Op("And")>>,
                 <<Block(<<Id("x"), Integer(2), Op("LT")>>),
                   Block(<<Integer(2), Op("Assign"), Id("x"), Op("Drop")>>),
                   Op("While")>>,
                 <<Block(<<Integer(1), Bool(FALSE)>>), Block(<<>>), Op("While")>>,
                 <<Block(<<>>), Block(<<Integer(1)>>), Op("While")>>,
                 <<Block(<<Id("x"), Integer(1), Op("Sub"), Op("Assign"), Id("x"),
                           Integer(0), Op("GT")>>), Op("Do")>>,
                 <<Integer(1), Op("Sub")>>,
                 <<Float(1), Op("Add")>>,
                 <<Array(<<Integer(1), String(<<"a">>)>>), Op("Invert")>>,
                 <<String(<<"a", "b">>), Op("Invert")>>,
                 <<Bool(TRUE), Bool(FALSE), Op("BitXor")>>,
                 <<Op("Assign")>>,
                 <<Op("Assign"), Integer(1)>>,
                 <<Op("Assign"), Array(<<Id("a")>>)>>,
                 <<Op("Break"), Op("Assign"), Id("a")>>,
                 <<Id("b")>>},
        f \in Suffixes \cup {<<Id("x")>>, <<Id("a")>>}}

\* the largest number the countdown scripts start from
MaxCount == 3

\* the body of the countdown: 1 - .. 0 >
CountdownBody == <<Integer(1), Op("Sub"), Op("Dup"), Integer(0), Op("GT")>>

\* n { 1 - .. 0 > } do, with and without the closing ','
DoScripts ==
    {<<Integer(n), Block(CountdownBody), Op("Do")>> \o f :
        n \in 1..MaxCount, f \in {<<>>, <<Op("Drop")>>}}

\* sequences of every type, of length 0, 1 and 2, some holding arrays
IndexedSeqs ==
    {String(<<>>), String(<<"a">>), String(<<"a", "b">>),
     Tuple(<<>>), Tuple(<<Bool(TRUE)>>), Tuple(<<Integer(1), Float(1)>>),
     Tuple(<<Array(<<>>), Integer(1)>>),
     Array(<<>>), Array(<<String(<<"a">>)>>), Array(<<Integer(2), Integer(1)>>),
     Array(<<Integer(1), Array(<<Integer(1)>>)>>)}

\* seq i $, for every index from below -n to above n
IndexScripts ==
    {<<seq, Integer(i), Op("Index")>> \o f :
        seq \in IndexedSeqs, i \in -(MaxInt + 1)..(MaxInt + 1),
        f \in {<<>>, <<Op("Size")>>}}

\* a b / and a b %, with divisors that are zero and divisors that are not
DivScripts ==
    {<<a, b, Op(o)>> \o f :
        a \in {Integer(0), Integer(MaxInt), Integer(-1), Float(1)},
        b \in {Integer(0), Float(0), Integer(1), Integer(-1), Float(1)},
        o \in {"Div", "Mod"},
        f \in {<<>>, <<Op("Drop")>>}}

\* a b -, for tuples and arrays that hold an element once, twice or not at
\* all
DiffScripts ==
    {<<a, b, Op("Sub")>> \o f :
        a \in {Tuple(<<>>), Tuple(<<Integer(1), Integer(2), Integer(1)>>),
               Tuple(<<String(<<"a">>), Integer(2)>>),
               Array(<<>>), Array(<<Integer(1), Integer(2), Integer(1)>>),
               Array(<<Integer(2)>>)},
        b \in {Tuple(<<>>), Tuple(<<Integer(1)>>), Tuple(<<Integer(2), String(<<"a">>)>>),
               Array(<<>>), Array(<<Integer(1)>>), Array(<<Integer(0), Integer(2)>>)},
        f \in {<<>>, <<Op("Size")>>}}

\* n s * and s n *, for tuples and arrays of length 0, 1 and 2
RepeatScripts ==
    {run \o f :
        run \in UNION {{<<n, seq, Op("Mul")>>, <<seq, n, Op("Mul")>>} :
                          n \in {Integer(i) : i \in 0..MaxInt} \cup {Float(2)},
                          seq \in {Tuple(<<>>), Tuple(<<Integer(1)>>),
                                   Tuple(<<Integer(1), String(<<"a">>)>>),
                                   Array(<<>>), Array(<<Integer(1), Integer(2)>>)}},
        f \in {<<>>, <<Op("Size")>>}}

\* '..' in the root context and in a child of it, on stacks that are empty
\* and stacks that are not
DupScripts ==
    {before \o run \o f :
        before \in {<<>>, <<Integer(1)>>, <<Array(<<Integer(1)>>)>>,
                    <<Integer(1), String(<<"a">>)>>},
        run \in {<<Op("Dup")>>, <<Tuple(<<Op("Dup")>>)>>, <<Array(<<Op("Dup")>>)>>,
                 <<Tuple(<<Integer(0), Op("Dup")>>)>>,
                 <<Block(<<Op("Dup")>>), Op("Eval")>>},
        f \in {<<>>, <<Op("Drop")>>}}

\* arg block % and arg block |, on blocks that leave nothing, one value or
\* several, with and without a value below the operands
InvokeScripts ==
    {below \o <<arg, Block(body), Op(o)>> \o f :
        below \in {<<>>, <<Bool(TRUE)>>},
        arg \in {Integer(1), String(<<"a">>), Array(<<Integer(1)>>)},
        body \in {<<>>, <<Op("Drop")>>, <<Integer(2)>>, <<Op("Dup"), Integer(2)>>,
                  <<Op("Drop"), Array(<<>>)>>, <<Op("Drop"), Op("Dup")>>},
        o \in {"Mod", "BitOr"},
        f \in {<<>>, <<Op("Size")>>}}

\* [ payload ], with payloads whose operators have their operands in the
\* literal and payloads whose operators lack them, on enclosing stacks that
\* hold nothing, one value or two
LiteralScripts ==
    {below \o <<Array(payload)>> \o f :
        below \in {<<>>, <<Integer(1)>>, <<Integer(1), Integer(2)>>},
        payload \in {<<>>, <<Op("Add")>>, <<Integer(2), Op("Add")>>,
                     <<Integer(1), Integer(2), Op("Add")>>,
                     <<Integer(1), Integer(2), Integer(2), Op("Sub"), Integer(0)>>,
                     <<Op("Drop")>>, <<Op("Break")>>, <<Op("Not")>>, <<Op("Dup")>>,
                     <<Op("Assign"), Id("a")>>,
                     <<Integer(2), Op("Assign"), Id("a"), Integer(0)>>,
                     <<Block(<<Op("Add")>>), Op("Eval")>>,
                     <<Block(<<Id("b")>>), Block(<<>>), Op("While")>>},
        f \in {<<>>, <<Id("a")>>, <<Op("Size")>>}}

\* every operator of the language as the first symbol of a script
EmptyStackScripts ==
    {<<Op(o)>> \o f : o \in Operator, f \in {<<>>, <<Id("a")>>, <<Integer(1)>>}}

\* the literals that '=' and '~=' compare
EqualOperands ==
    {Bool(TRUE), Bool(FALSE), Integer(0), Integer(1), Integer(MaxInt), Float(1),
     Float(2), String(<<>>), String(<<"a">>), Tuple(<<>>), Tuple(<<Integer(1)>>),
     Tuple(<<Bool(TRUE)>>), Tuple(<<Integer(MaxInt)>>), Array(<<>>), Array(<<Integer(1)>>), Block(<<>>),
     Block(<<Id("a")>>)}

\* 'a b =' and 'a b ~=' for every pair of operands
EqualScripts ==
    {<<a, b, Op(o)>> : a \in EqualOperands, b \in EqualOperands, o \in {"Equal", "NE"}}

\* one Array under two names and on the stack, compared, duplicated and
\* changed in place
AliasScripts ==
    {<<Array(<<Integer(1), Integer(2)>>), Op("Assign"), Id("a"), Op("Assign"), Id("b"),
       Op("Break")>> \o t :
        t \in {<<Id("a"), Id("b"), Op("Equal")>>,
               <<Id("a"), Id("b"), Op("NE")>>,
               <<Id("a"), Op("Dup"), Op("Equal")>>,
               <<Id("a"), Array(<<Integer(1), Integer(2)>>), Op("Equal")>>,
               <<Tuple(<<Id("a")>>), Tuple(<<Id("b")>>), Op("Equal")>>,
               <<Id("a"), Tuple(<<Integer(1)>>), Op("Sub"), Id("b")>>,
               <<Id("a"), Tuple(<<>>), Op("Sub"), Id("b"), Op("Equal")>>}}

\* ':' followed by a symbol that is neither an Identifier nor a Block
AssignOtherScripts ==
    {<<Integer(1), Op("Assign"), t>> \o f :
        t \in {Op("Add"), Op("Dup"), Op("Assign"), Bool(TRUE), Integer(0), Float(1),
               String(<<"a">>), Array(<<>>), Array(<<Integer(2)>>),
               Array(<<Integer(2), Op("Assign"), Id("b")>>), Tuple(<<Integer(2)>>)},
        f \in {<<>>, <<Id("b")>>, <<Integer(2)>>}}

\* operators whose handler rejects the operands it was selected for, and
\* operators for which the search finds no handler
RejectScripts ==
    {below \o t \o f :
        below \in {<<>>, <<Bool(TRUE)>>, <<Integer(0), String(<<"a">>)>>},
        t \in {<<Float(1), Integer(2), Op("Mod")>>, <<Integer(2), Float(1), Op("Mod")>>,
               <<Float(1), Op("Invert")>>, <<Integer(1), Op("Invert")>>,
               <<Integer(1), String(<<"a">>), Op("Mod")>>,
               <<Array(<<>>), Bool(TRUE), Op("Mod")>>,
               <<Integer(1), Tuple(<<>>), Op("BitOr")>>,
               <<String(<<"a">>), Op("Add")>>, <<Bool(TRUE), Integer(1), Op("Sub")>>,
               <<Block(<<Op("Add")>>), Op("Eval")>>},
        f \in {<<>>, <<Op("Size")>>}}

Scripts ==
    RejectScripts \cup AssignOtherScripts \cup EqualScripts \cup AliasScripts \cup OperandScripts \cup IfScripts \cup AssignScripts \cup BlockScripts
    \cup DoScripts \cup IndexScripts \cup DivScripts \cup DiffScripts
    \cup RepeatScripts \cup DupScripts \cup InvokeScripts \cup LiteralScripts
    \cup EmptyStackScripts

(***************************************************************************)
(* run_script.                                                             *)
(***************************************************************************)
\* ScriptRuntime(): a root context with the global namespace; run_script
\* parses the text and calls root.exec on its symbols
InitWith(texts) ==
    /\ script \in {get_symbols(s, 0) : s \in texts}
    /\ ctxs = <<[ContextFrame(0, <<1>>, {}) EXCEPT !.block = 1]>>
    /\ dicts = <<EmptyDict>>
    /\ iters = <<[syms |-> script, pos |-> 0]>>
    /\ heap = <<>>
    /\ frames = <<Frame("exec", 1, 1, 0, <<>>, 0, <<>>)>>
    /\ exc = NoExc
    /\ status = "running"
    /\ steps = 0
    /\ last = NoLast
    /\ d_registry = {}
    /\ d_base = <<>>
    /\ d_op = ""
    /\ d_stack = <<>>
    /\ d_result = NoResult

Init == InitWith(Scripts)

Next ==
    \/ ExecReturn
    \/ EvalIdentifier
    \/ EvalSimpleLiteral
    \/ EvalCompoundLiteral
    \/ CompoundReturn
    \/ DispatchError
    \/ ApplyHandler
    \/ Break
    \/ Eval
    \/ Repeat
    \/ RepeatNext
    \/ RepeatArray
    \/ Invoke
    \/ InvokeReturn
    \/ Assign
    \/ AssignReturn
    \/ Shortcircuit
    \/ ShortcircuitEval
    \/ ShortcircuitReturn
    \/ AndOr
    \/ If
    \/ IfReturn
    \/ While
    \/ Do
    \/ DoNext
    \/ Unwind

Spec == Init /\ [][Next]_vars

\* the scripts of the runs that are followed to their end
FairScripts ==
    DoScripts \cup BlockScripts
    \cup {s \in IfScripts : Len(s) = 4}
    \cup {<<Bool(b), Integer(1), Op(o)>> : b \in BOOLEAN, o \in {"And", "Or"}}
    \cup {<<Op("Add")>>, <<Integer(0), Op("Assign"), Block(<<Id("a")>>)>>,
          <<Integer(MaxInt), Tuple(<<Integer(1)>>), Op("Mul")>>,
          <<Bool(FALSE), Integer(0), Block(<<>>), Op("Do")>>}

InitFair == InitWith(FairScripts)

\* the interpreter is one sequential program: it takes its next step as long
\* as it has one
SpecFair == InitFair /\ [][Next]_vars /\ WF_vars(Next)

(***************************************************************************)
(* Dispatch in isolation: apply_operator on any operator and any stack,    *)
(* under the registry of the operator modules or under a registry made by  *)
(* one permute registration.                                               *)
(***************************************************************************)
\* one value of every type
SampleValues ==
    {IntValue(MaxInt), FloatValue(1), BoolValue(TRUE), StringValue(<<"a">>),
     ArrayRef(1), TupleValue(<<>>), BlockValue(<<>>), NameValue(1, "a")}

RECURSIVE SeqsUpTo(_, _)
\* the sequences over S of length at most n
SeqsUpTo(S, n) ==
    IF n = 0 THEN {<<>>}
    ELSE LET shorter == SeqsUpTo(S, n - 1)
         IN shorter \cup {<<x>> \o s : x \in S, s \in {t \in shorter : Len(t) = n - 1}}

\* the signatures a permute registration is declared with: two or three
\* operand classes, pairwise distinct
BaseSignatures ==
    {b \in SeqsUpTo({"Number", "Exec", "String", "Array"}, 3) :
        /\ Len(b) >= 2
        /\ \A i, j \in 1..Len(b) : b[i] = b[j] => i = j}

\* the registry with the handler of '<<' on two Numbers registered as well:
\* LShift and Collect are one member of the Operator enum, so the two
\* handlers share the registry of '<<'
OP_REGISTRY_lshift ==
    OP_REGISTRY \cup ophandler_typed("Collect", <<"Number", "Number">>, "operator_lshift")

InitDispatch ==
    /\ \/ d_registry = OP_REGISTRY /\ d_base = <<>> /\ d_op \in Operator
       \/ d_registry = OP_REGISTRY_lshift /\ d_base = <<>> /\ d_op = "Collect"
       \/ \E b \in BaseSignatures :
             /\ d_registry = ophandler_permute("Mul", b, "handler")
             /\ d_base = b
             /\ d_op = "Mul"
    /\ d_stack \in SeqsUpTo(SampleValues, MaxStack)
    /\ d_result = NoResult
    /\ script = <<>>
    /\ ctxs = <<>>
    /\ dicts = <<>>
    /\ iters = <<>>
    /\ heap = <<>>
    /\ frames = <<>>
    /\ exc = NoExc
    /\ status = "dispatch"
    /\ steps = 0
    /\ last = NoLast

\* apply_operator(ctx, op) up to the call of the handler: the search, the
\* pops, and the arguments the adapter and the handler behind it receive;
\* when the search raises, nothing is popped and nothing is called
apply_operator ==
    /\ status = "dispatch"
    /\ d_result = NoResult
    /\ LET found == search_registery(d_registry, d_op, d_stack)
           arity == found.opdata.arity
           passed == call_order(SubSeq(d_stack, 1, arity))
       IN IF found.outcome = "selected"
          THEN /\ d_result' = [outcome |-> found.outcome, opdata |-> found.opdata,
                               args |-> SubSeq(d_stack, 1, arity),
                               passed |-> passed,
                               call |-> ReorderFunc(found.opdata.permute, passed),
                               called |-> TRUE, pre |-> d_stack]
               /\ d_stack' = SubSeq(d_stack, arity + 1, Len(d_stack))
          ELSE /\ d_result' = [outcome |-> found.outcome, opdata |-> NoOverload,
                               args |-> found.args, passed |-> <<>>,
                               call |-> <<>>, called |-> FALSE, pre |-> d_stack]
               /\ d_stack' = d_stack
    /\ UNCHANGED <<d_registry, d_base, d_op>>
    /\ UNCHANGED ivars

SpecDispatch == InitDispatch /\ [][apply_operator]_vars

(***************************************************************************)
(* Writes through an IndexValue in isolation: one array, and a run of      *)
(* writes of any value to any slot of it.                                  *)
(***************************************************************************)
\* the longest array the writes start from
MaxLen == 2

\* the number of writes in a run
MaxWrites == 2

\* what the array holds at first, and what is written to it
ArrayItems == {IntValue(0), StringValue(<<"a">>)}

WrittenValues == {IntValue(1), BoolValue(FALSE)}

\* every slot of the longest array a run can make, and the slots around it
Slots == -(MaxLen + MaxWrites + 1)..(MaxLen + MaxWrites + 2)

InitBind ==
    /\ heap \in {<<content>> : content \in SeqsUpTo(ArrayItems, MaxLen)}
    /\ script = <<>>
    /\ ctxs = <<>>
    /\ dicts = <<>>
    /\ iters = <<>>
    /\ frames = <<>>
    /\ exc = NoExc
    /\ status = "bind"
    /\ steps = 0
    /\ last = NoLast
    /\ d_registry = {}
    /\ d_base = <<>>
    /\ d_op = ""
    /\ d_stack = <<>>
    /\ d_result = NoResult

\* IndexValue(array, index).bind_value(ctx, value): the constructor refuses
\* the index 0, the binding is array[index] = value
BindIndex ==
    /\ status = "bind"
    /\ steps < MaxWrites
    /\ \E i \in Slots, value \in WrittenValues :
          LET target == IndexValue(ArrayRef(1), IntValue(i))
              r == IF i = 0
                   THEN Bound(IndexError("0 is not a valid index"), dicts, heap)
                   ELSE bind_value(target, 0, value, dicts, heap)
          IN /\ heap' = r.heap
             /\ exc' = r.exc
             /\ last' = [NoLast EXCEPT !.func = "bind_value", !.names = <<target>>,
                                       !.value = value, !.pre = heap[1],
                                       !.at = steps + 1]
    /\ steps' = steps + 1
    /\ UNCHANGED <<script, ctxs, dicts, iters, frames, status>>
    /\ UNCHANGED dvars

SpecBind == InitBind /\ [][BindIndex]_vars

(***************************************************************************)
(* Properties.                                                             *)
(***************************************************************************)
\* the step that made the record last has just been taken
Fresh == last.at = steps /\ last.at > 0

\* C1: once dispatch has matched a handler of arity k, apply_operator pops
\* exactly k values, calls the handler with them in bottom-to-top order (the
\* value that was on top last) and, for a handler that returns its results
\* without working on the context itself, leaves the returned values on the
\* stack in the order returned (the last on top) above the untouched rest
C1_ApplyOperator ==
    (last.outcome = "selected" /\ last.func # "") =>
        /\ Len(last.passed) = last.arity
        /\ \A i \in 1..last.arity : last.passed[i] = last.pre[last.arity + 1 - i]
        /\ (Fresh /\ last.returned) =>
              /\ Len(ctxs[last.ctx].stack)
                    = Len(last.pre) - last.arity + Len(last.ret)
              /\ \A i \in 1..Len(last.ret) :
                    ctxs[last.ctx].stack[Len(last.ret) + 1 - i] = last.ret[i]
              /\ \A i \in 1..(Len(last.pre) - last.arity) :
                    ctxs[last.ctx].stack[Len(last.ret) + i] = last.pre[last.arity + i]

\* C2: the symbol operator_assign consumes as its target is the symbol that
\* immediately follows the ':' in the stream being run, and the loop of that
\* stream does not take that symbol again, whatever ran earlier in the stream
C2_AssignTargetFollows ==
    (last.func = "operator_assign" /\ last.pre # <<>> /\ last.follow # NoSym) =>
        /\ last.target = last.follow
        /\ (Fresh /\ frames # <<>> /\ Top.kind = "exec" /\ Top.ctx = last.ctx
               /\ HasNext)
              => Sym.meta # last.follow.meta

\* the operand classes of the n values on top of the stack, bottom-to-top
SignatureAt(stack, n) == [i \in 1..n |-> optype(stack[n + 1 - i])]

\* a typed handler of the operator whose signature the n top values have
TypedAt(n) ==
    {o \in d_registry : /\ o.op = d_op /\ o.typed /\ n <= Len(d_result.pre)
                        /\ o.signature = SignatureAt(d_result.pre, n)}

\* an untyped handler of the operator registered for arity n
UntypedAt(n) == {o \in d_registry : o.op = d_op /\ ~o.typed /\ o.arity = n}

\* C3: when the search has peeked n values and both a typed handler with
\* the signature of those values and an untyped handler of arity n exist,
\* the typed one is selected; an untyped handler is selected only when no
\* typed signature of that length matches
C3_TypedBeforeUntyped ==
    d_result.outcome = "selected" =>
        LET n == Len(d_result.args)
        IN /\ (TypedAt(n) # {} /\ UntypedAt(n) # {}) => d_result.opdata \in TypedAt(n)
           /\ ~d_result.opdata.typed =>
                 (TypedAt(n) = {} /\ d_result.opdata \in UntypedAt(n))

\* a typed and an untyped handler were both candidates for the peeked values
C3_Witness ==
    /\ d_result.outcome = "selected"
    /\ Len(d_result.args) = 2
    /\ TypedAt(2) # {} /\ UntypedAt(2) # {}
    /\ d_result.opdata.typed

\* the search finds nothing for the n values on top
NoMatchAt(n) == TypedAt(n) = {} /\ UntypedAt(n) = {}

\* the three ways a search for an operator of maximum arity m ends
DispatchEnds(m) ==
    LET n == Len(d_result.args)
        selected ==
            /\ d_result.outcome = "selected"
            /\ d_result.called
            /\ d_result.opdata \in TypedAt(n) \cup UntypedAt(n)
            /\ \A k \in 1..(n - 1) : NoMatchAt(k)
        invalid ==
            /\ d_result.outcome = "invalid operands"
            /\ n = m
            /\ d_result.args = SubSeq(d_result.pre, 1, m)
            /\ \A k \in 1..m : NoMatchAt(k)
            /\ ~d_result.called /\ d_stack = d_result.pre
        not_enough ==
            /\ d_result.outcome = "not enough operands"
            /\ Len(d_result.pre) < m
            /\ \A k \in 1..Len(d_result.pre) : NoMatchAt(k)
            /\ ~d_result.called /\ d_stack = d_result.pre
    IN /\ selected \/ invalid \/ not_enough
       /\ ~(selected /\ invalid) /\ ~(selected /\ not_enough)
       /\ ~(invalid /\ not_enough)

\* the search has run for an operator without a 0-ary handler
Searched ==
    /\ d_result # NoResult
    /\ d_base = <<>>
    /\ TypedAt(0) = {} /\ UntypedAt(0) = {}

\* C4 as stated: for an operator without a 0-ary handler, dispatch ends in
\* exactly one of three ways: a handler is selected; or as many values as the
\* operator's maximum registered arity were peeked, none matched, and an
\* operand error carrying them is raised; or the stack is exhausted before
\* the maximum arity is reached and 'not enough operands' is raised; no
\* handler is called in the two error cases
C4_ThreeWays == Searched => DispatchEnds(OP_ARITY(d_registry, d_op))

\* C4 for the operators that have a handler; for an operator that has none
\* the search peeks one value past its maximum arity of 0: 'invalid operands'
\* carries the value on top, and the empty stack gives 'not enough operands'
C4_ThreeWaysRegistered ==
    Searched =>
        IF OP_ARITY(d_registry, d_op) > 0
        THEN DispatchEnds(OP_ARITY(d_registry, d_op))
        ELSE DispatchEnds(1)

\* the search ran out of candidates with the maximum arity peeked
C4_Witness ==
    /\ Searched
    /\ d_result.outcome = "invalid operands"
    /\ OP_ARITY(d_registry, d_op) = 2
    /\ Len(d_result.args) = 2
    /\ Len(d_result.pre) = 3

\* C9: for a handler registered by a permute registration under a signature
\* of pairwise distinct classes, and every permutation of that signature on
\* the stack, dispatch selects the adapter of that permutation and the
\* handler is called with its i-th argument of the i-th declared class
C9_PermuteReorders ==
    (/\ d_result # NoResult
     /\ d_base # <<>>
     /\ Len(d_result.pre) >= Len(d_base)
     /\ \E p \in permutations(Len(d_base)) :
           SignatureAt(d_result.pre, Len(d_base))
              = [i \in 1..Len(d_base) |-> d_base[p[i]]])
    => /\ d_result.outcome = "selected"
       /\ d_result.opdata.func = "handler"
       /\ d_result.opdata.signature = SignatureAt(d_result.pre, Len(d_base))
       /\ \A i \in 1..Len(d_base) : optype(d_result.call[i]) = d_base[i]

\* the frames of handlers that wait for a child created without namespace
\* sharing
Unshared == {"operator_invoke", "operator_compose", "_do_block_assignment"}

\* context c is a child whose namespace has a layer of its own
OwnLayer(c) ==
    /\ ctxs[c].parent # 0
    /\ "ShareNamespace" \notin ctxs[c].flags

\* C5: while a child created without namespace sharing runs, and when it has
\* finished, its parent sees for every name what it saw when the child was
\* created; a name the child looks up that only an ancestor has bound
\* resolves to the ancestor's value; a name bound in a child created with
\* namespace sharing is seen by the parent with the new value
C5_NamespaceIsolation ==
    [][/\ \A i \in 1..Len(frames) :
            (/\ frames[i].kind \in Unshared
             /\ frames[i].kind = "_do_block_assignment" => i < Len(frames))
            => Visible(dicts', ctxs[frames[i].ctx].namespace) = frames[i].snap
       /\ (/\ AtSymbol("Identifier")
           /\ OwnLayer(C)
           /\ "BlockAssignment" \notin ctxs[C].flags
           /\ dicts[Head(ctxs[C].namespace)][Sym.x] = None
           /\ Visible(dicts, ctxs[ctxs[C].parent].namespace)[Sym.x] # None)
          => ctxs'[C].stack
                = <<Visible(dicts, ctxs[ctxs[C].parent].namespace)[Sym.x]>> \o Stack
       /\ (/\ last'.at = steps' /\ last'.at # last.at
           /\ last'.func = "operator_assign"
           /\ last'.target.k = "Identifier"
           /\ ctxs[last'.ctx].parent # 0
           /\ ~OwnLayer(last'.ctx))
          => Visible(dicts', ctxs[ctxs[last'.ctx].parent].namespace)[last'.target.x]
                = last'.pre[1]
      ]_vars

\* a child with a layer of its own has bound a name that its parent had
\* bound to another value
C5_Witness ==
    /\ Fresh /\ last.func = "operator_assign" /\ last.returned
    /\ last.target.k = "Identifier"
    /\ OwnLayer(last.ctx)
    /\ Visible(dicts, ctxs[last.ctx].namespace)[last.target.x] = last.pre[1]
    /\ Visible(dicts, ctxs[ctxs[last.ctx].parent].namespace)[last.target.x]
          \notin {None, last.pre[1]}

BlockAssigned == Fresh /\ last.func = "_do_block_assignment"

\* the target t is bound to the value x in the assigning context
BoundTo(t, x) ==
    t.t = "_name" /\ Visible(dicts, ctxs[last.ctx].namespace)[t.s[1]] = x

C8_PseudoValuesConfined ==
    \A c \in 1..Len(ctxs) :
        "BlockAssignment" \notin ctxs[c].flags =>
            \A i \in 1..Len(ctxs[c].stack) : ~IsBindingTarget(ctxs[c].stack[i])

\* the values the specification calls falsy
SpecFalsy(v) ==
    \/ v \in {BoolValue(FALSE), IntValue(0), FloatValue(0)}
    \/ IsSequenceValue(v) /\ items(v, heap) = <<>>

\* a handler has just decided on the truth of last.cond
TruthUsed ==
    /\ Fresh
    /\ last.func \in {"operator_and", "operator_or", "operator_if",
                      "operator_while", "operator_do"}
    /\ last.cond # None

\* 'not' has just returned
NotApplied == Fresh /\ last.func = "operator_not" /\ last.returned

\* C10 as stated: Bool false, Int 0, Float 0.0 and every empty sequence are
\* falsy and every other value is truthy, for 'and', 'or', 'if', 'while' and
\* 'do'; 'not' pushes true exactly for the falsy values
C10_ZeroAndEmptyFalsy ==
    /\ TruthUsed => (last.truth <=> ~SpecFalsy(last.cond))
    /\ NotApplied => last.ret = <<BoolValue(SpecFalsy(last.call[1]))>>

\* C10 as the code has it: Bool false is the only falsy value; Int 0,
\* Float 0.0, the empty sequences and every other value are truthy; 'not'
\* pushes true exactly for Bool false
C10_OnlyFalseFalsy ==
    /\ TruthUsed => (last.truth <=> last.cond # BoolValue(FALSE))
    /\ NotApplied =>
          /\ last.ret = <<BoolValue(last.call[1] = BoolValue(FALSE))>>
          /\ ctxs[last.ctx].stack[1] = BoolValue(last.call[1] = BoolValue(FALSE))

\* 'not' has answered false for an empty sequence
C10_Witness ==
    /\ NotApplied
    /\ IsSequenceValue(last.call[1]) /\ items(last.call[1], heap) = <<>>
    /\ ctxs[last.ctx].stack[1] = BoolValue(FALSE)

\* the frame on top is that of operator_and or operator_or
InAndOr == Running /\ Top.kind \in {"operator_and", "operator_or"}

\* operator_and stops at a falsy left value, operator_or at a truthy one
ShortCircuits(kind, a) ==
    IF kind = "operator_and" THEN ~bool(a, heap) ELSE bool(a, heap)

\* the stack of the handler's context once one value has replaced the two
\* operands
Replaced(v) == <<v>> \o SubSeq(Top.pre, 3, Len(Top.pre))

\* C11: 'and' and 'or' evaluate a first: a Block runs in a child context
\* that shares the namespace and starts with an empty stack, any other value
\* is taken as it is; when a's value is falsy for 'and' (truthy for 'or') the
\* handler returns at once with that value pushed, b never executed and no
\* binding changed; otherwise b is evaluated the same way and its value is
\* pushed; in both cases exactly one value replaces the two operands
C11_ShortCircuitAndOr ==
    [][InAndOr =>
        /\ Top.n \in {1, 3} =>
              LET o == ShortcircuitOperand
              IN /\ o = Top.vals[(Top.n + 1) \div 2]
                 /\ IsCtxExecValue(o) =>
                       /\ Len(ctxs') = Len(ctxs) + 1
                       /\ ctxs'[Len(ctxs')].namespace = ctxs[C].namespace
                       /\ ctxs'[Len(ctxs')].stack = <<>>
                       /\ ctxs'[Len(ctxs')].parent = C
                       /\ dicts' = dicts
                 /\ ~IsCtxExecValue(o) =>
                       frames'[Len(frames)].vals = Append(Top.vals, o)
        /\ (Top.n = 2 /\ ShortCircuits(Top.kind, Top.vals[3])) =>
              /\ frames' = Popd(frames)
              /\ iters' = iters /\ dicts' = dicts /\ heap' = heap
              /\ ctxs'[C].stack = Replaced(Top.vals[3])
              /\ status' = "running"
        /\ (Top.n = 2 /\ ~ShortCircuits(Top.kind, Top.vals[3])) =>
              /\ frames'[Len(frames)].n = 3
              /\ ctxs' = ctxs
        /\ Top.n = 4 =>
              /\ frames' = Popd(frames)
              /\ ctxs'[C].stack = Replaced(Top.vals[4])
              /\ status' = "running"
      ]_vars

\* the frame on top is that of operator_if
InIf == Running /\ Top.kind = "operator_if"

\* the operand operator_if selects for the evaluated cond
Selected == IF bool(Top.vals[4], heap) THEN Top.vals[2] ELSE Top.vals[3]

\* C12: 'if' evaluates cond (a Block in a child that shares the namespace),
\* selects t when cond is truthy and f otherwise; a selected Block is executed
\* in the current context, a selected value that is no Block is pushed in
\* place of the three operands; nothing else is executed or pushed, so the
\* branch not selected never runs and is not left on the stack
C12_IfSelects ==
    [][InIf =>
        /\ Top.n = 1 =>
              /\ ShortcircuitOperand = Top.vals[1]
              /\ IsCtxExecValue(Top.vals[1]) =>
                    /\ ctxs'[Len(ctxs')].namespace = ctxs[C].namespace
                    /\ ctxs'[Len(ctxs')].stack = <<>>
                    /\ iters'[Len(iters')].syms = Top.vals[1].s
              /\ ~IsCtxExecValue(Top.vals[1]) =>
                    frames'[Len(frames)].vals = Append(Top.vals, Top.vals[1])
        /\ (Top.n = 2 /\ IsCtxExecValue(Selected)) =>
              /\ Len(frames') = Len(frames) + 1
              /\ frames'[Len(frames')].kind = "exec"
              /\ frames'[Len(frames')].ctx = C
              /\ Len(iters') = Len(iters) + 1
              /\ iters'[Len(iters')] = [syms |-> Selected.s, pos |-> 0]
              /\ ctxs'[C].stack = SubSeq(Top.pre, 4, Len(Top.pre))
              /\ dicts' = dicts
        /\ (Top.n = 2 /\ ~IsCtxExecValue(Selected)) =>
              /\ frames' = Popd(frames)
              /\ iters' = iters /\ dicts' = dicts
              /\ ctxs'[C].stack = <<Selected>> \o SubSeq(Top.pre, 4, Len(Top.pre))
              /\ status' = "running"
        /\ Top.n = 4 =>
              /\ frames' = Popd(frames)
              /\ ctxs' = ctxs /\ iters' = iters /\ dicts' = dicts
      ]_vars

\* the frame on top is that of operator_while
InWhile == Running /\ Top.kind = "operator_while"

\* the frame on top is that of a _shortcircuit_eval called by operator_while
InWhileCond ==
    /\ Running /\ Top.kind = "_shortcircuit_eval"
    /\ frames[Len(frames) - 1].kind = "operator_while"

\* C13: 'while' consumes cond and body and pushes nothing; before each
\* iteration cond is executed in a fresh child context that shares the
\* namespace and starts with an empty stack; a cond that leaves a number of
\* values other than one raises an operand error; after each truthy cond the
\* body is executed once in the current context and cond is evaluated again;
\* the first falsy cond ends the loop; the handler itself never changes the
\* current stack
C13_WhileLoop ==
    [][/\ AtOperator({"operator_while"}) =>
             /\ ctxs'[C].stack = SubSeq(Stack, 3, Len(Stack))
             /\ frames'[Len(frames')].vals = <<Stack[2], Stack[1]>>
       /\ InWhile =>
             /\ ctxs'[C].stack = Stack
             /\ Top.n = 1 =>
                   /\ Len(ctxs') = Len(ctxs) + 1
                   /\ ctxs'[Len(ctxs')].namespace = ctxs[C].namespace
                   /\ ctxs'[Len(ctxs')].parent = C
                   /\ ctxs'[Len(ctxs')].stack = <<>>
                   /\ iters'[Len(iters')] = [syms |-> Top.vals[1].s, pos |-> 0]
                   /\ frames'[Len(frames')].ctx = Len(ctxs')
             /\ (Top.n = 2 /\ bool(Top.vals[3], heap)) =>
                   /\ Len(frames') = Len(frames) + 1
                   /\ frames'[Len(frames')].kind = "exec"
                   /\ frames'[Len(frames')].ctx = C
                   /\ iters'[Len(iters')] = [syms |-> Top.vals[2].s, pos |-> 0]
                   /\ frames'[Len(frames)].n = 1
                   /\ frames'[Len(frames)].vals = SubSeq(Top.vals, 1, 2)
             /\ (Top.n = 2 /\ ~bool(Top.vals[3], heap)) =>
                   /\ frames' = Popd(frames)
                   /\ ctxs' = ctxs /\ iters' = iters /\ dicts' = dicts
                   /\ status' = "running"
       /\ InWhileCond =>
             /\ ctxs' = ctxs
             /\ Len(ctxs[Top.sub].stack) # 1 =>
                   /\ status' = "raising"
                   /\ exc'.kind = "ScriptOperandError"
             /\ Len(ctxs[Top.sub].stack) = 1 =>
                   /\ status' = "running"
                   /\ frames'[Len(frames')].kind = "operator_while"
                   /\ frames'[Len(frames')].n = 2
                   /\ frames'[Len(frames')].vals
                         = Append(frames[Len(frames) - 1].vals, ctxs[Top.sub].stack[1])
      ]_vars

\* a loop has ended on a falsy cond after its body had run: the body's
\* binding of x is in place
C13_Witness ==
    /\ Fresh /\ last.func = "operator_while" /\ ~last.truth
    /\ Visible(dicts, ctxs[last.ctx].namespace)["x"] = IntValue(2)
    /\ ctxs[last.ctx].stack = SubSeq(last.pre, 3, Len(last.pre))

\* the script run is the countdown from n, with or without the closing ','
IsCountdown(n, closed) ==
    script = get_symbols(<<Integer(n), Block(CountdownBody), Op("Do")>>
                         \o (IF closed THEN <<Op("Drop")>> ELSE <<>>), 0)

\* how many times the body of the countdown was executed
BodyRuns ==
    Cardinality({i \in 1..Len(iters) : iters[i].syms = script[2].body})

\* the script run is one of the countdowns
AnyCountdown == \E n \in 1..MaxCount, closed \in BOOLEAN : IsCountdown(n, closed)

\* C14, each step of 'do': the body is executed once in the current context
\* when 'do' is applied; after every execution the top of the stack is
\* popped, and the body is executed again exactly when the popped value is
\* truthy
C14_DoSteps ==
    [][/\ AtOperator({"operator_do"}) =>
             /\ Len(frames') = Len(frames) + 2
             /\ frames'[Len(frames')].kind = "exec"
             /\ frames'[Len(frames')].ctx = C
             /\ iters'[Len(iters')] = [syms |-> Stack[1].s, pos |-> 0]
             /\ ctxs'[C].stack = Tail(Stack)
       /\ (Running /\ Top.kind = "operator_do" /\ Stack # <<>>) =>
             /\ ctxs'[C].stack = Tail(Stack)
             /\ bool(Stack[1], heap) =>
                   /\ Len(frames') = Len(frames) + 1
                   /\ frames'[Len(frames')].kind = "exec"
                   /\ frames'[Len(frames')].ctx = C
                   /\ iters'[Len(iters')] = [syms |-> Top.vals[1].s, pos |-> 0]
             /\ ~bool(Stack[1], heap) =>
                   /\ frames' = Popd(frames)
                   /\ iters' = iters
      ]_vars

\* C14, the countdown: the run never fails, and once it is over the body was
\* executed exactly n times and the stack holds the single value 0, or
\* nothing after a closing ','
C14_CountdownResult ==
    \A n \in 1..MaxCount : \A closed \in BOOLEAN :
        IsCountdown(n, closed) =>
            /\ status \in {"running", "done"}
            /\ BodyRuns <= n
            /\ status = "done" =>
                  /\ BodyRuns = n
                  /\ ctxs[1].stack = IF closed THEN <<>> ELSE <<IntValue(0)>>

\* C14: 'do' executes its body at least once in the current context and
\* repeats it as long as the value it pops is truthy; for every n >= 1 the
\* script 'n { 1 - .. 0 > } do' terminates after exactly n executions of the
\* body with the single value 0 on the stack, and a following ',' leaves the
\* stack empty
C14_DoCountdown ==
    /\ C14_DoSteps
    /\ []C14_CountdownResult
    /\ AnyCountdown ~> (status = "done")

\* the countdown from the largest n has ended after n executions of the body
C14_Witness ==
    /\ IsCountdown(MaxCount, TRUE)
    /\ status = "done"
    /\ BodyRuns = MaxCount
    /\ ctxs[1].stack = <<>>

\* '$' has just been applied to a sequence and an Int, outside the block of
\* an assignment
Indexed ==
    /\ Fresh
    /\ last.func = "operator_index"
    /\ last.call[2].t = "int"
    /\ "BlockAssignment" \notin ctxs[last.ctx].flags

\* the stack of the context '$' was applied on is v on top of what was below
\* the two operands
IndexYields(v) ==
    /\ exc = NoExc
    /\ ctxs[last.ctx].stack = <<v>> \o SubSeq(last.pre, 3, Len(last.pre))

\* C15: '$' on a sequence of length n and an Int i yields the i-th element
\* from the front for 1 <= i <= n, the element counted from the end for
\* -n <= i <= -1, and raises an Index error for i = 0, i > n and i < -n
C15_IndexElement ==
    Indexed =>
        LET content == items(last.call[1], heap)
            n == Len(content)
            i == last.call[2].n
        IN IF 1 <= i /\ i <= n THEN IndexYields(content[i])
           ELSE IF -n <= i /\ i <= -1 THEN IndexYields(content[n + i + 1])
           ELSE exc.kind = "ScriptIndexError"

\* a value has just been written through an IndexValue
Written == Fresh /\ last.func = "bind_value"

\* the array is what it was, but for the value v in slot p
Replaces(old, p, v) ==
    /\ exc = NoExc
    /\ Len(heap[1]) = Len(old)
    /\ heap[1][p] = v
    /\ \A j \in 1..Len(old) : j # p => heap[1][j] = old[j]

\* C16: writing v to slot i of an array of length n replaces the addressed
\* element for 1 <= i <= n and -n <= i <= -1 (length and other elements
\* unchanged), appends v for i = n+1, and for i = 0, i > n+1 and i < -n
\* raises an Index error and leaves the array unchanged
C16_SetItem ==
    Written =>
        LET old == last.pre
            n == Len(old)
            i == last.names[1].n
            v == last.value
        IN IF 1 <= i /\ i <= n THEN Replaces(old, i, v)
           ELSE IF -n <= i /\ i <= -1 THEN Replaces(old, n + i + 1, v)
           ELSE IF i = n + 1 THEN exc = NoExc /\ heap[1] = Append(old, v)
           ELSE exc.kind = "ScriptIndexError" /\ heap[1] = old

\* the second write of a run has appended to an array that the first write
\* had appended to
C16_Witness ==
    /\ Written
    /\ steps = 2
    /\ last.names[1].n = Len(last.pre) + 1
    /\ Len(last.pre) = MaxLen + 1
    /\ heap[1] = Append(last.pre, last.value)

\* '/' has just been applied to two Numbers, or '%' to two Ints, and the
\* divisor is zero
ZeroDivided ==
    /\ Fresh
    /\ last.func \in {"operator_div", "operator_mod"}
    /\ halves(last.call[2]) = 0
    /\ last.func = "operator_mod" => last.call[1].t = "int" /\ last.call[2].t = "int"

\* C17: '/' of two Numbers and '%' of two Ints with a zero divisor end in a
\* script operand error that carries the position of the operator, and in
\* no failure of another kind
C17_ZeroDivisor ==
    ZeroDivided =>
        /\ exc.kind = "ScriptOperandError"
        /\ status = "error" => exc.meta = script[3].meta

\* 'a b -' has just been applied to two operands of class Array
Differed == Fresh /\ last.func = "operator_diff"

\* the elements of a that are equal to no element of b, in their order.
\* The handler is applied without a change of the heap, so the heap holds
\* what a and b held when '-' was applied.
Difference(a, b) ==
    SelectSeq(items(a, heap), LAMBDA item : ~contains(b, item, heap))

\* C18: 'a b -' yields the elements of a that are equal to no element of b,
\* in their order; for a Tuple a the result is a new Tuple, for an Array a it
\* is the same Array, which then holds no element of b
C18_Difference ==
    Differed =>
        LET a == last.call[1]
            b == last.call[2]
            below == SubSeq(last.pre, 3, Len(last.pre))
        IN /\ exc = NoExc
           /\ a.t = "tuple" =>
                 ctxs[last.ctx].stack = <<TupleValue(Difference(a, b))>> \o below
           /\ a.t = "array" =>
                 /\ ctxs[last.ctx].stack = <<a>> \o below
                 /\ heap[a.n] = Difference(a, b)

\* C18, for a Tuple a alone
TupleDifference ==
    (Differed /\ last.call[1].t = "tuple") =>
        /\ exc = NoExc
        /\ ctxs[last.ctx].stack =
              <<TupleValue(Difference(last.call[1], last.call[2]))>>
              \o SubSeq(last.pre, 3, Len(last.pre))

\* '*' has just been applied to an Int n >= 0 and an Array or Tuple
Repeated ==
    /\ Fresh
    /\ last.func = "operator_repeat_array"
    /\ last.call[1].t = "int"
    /\ last.call[1].n >= 0

\* C19: '*' of an Int n >= 0 and an Array or Tuple s, in either order,
\* yields a new sequence of the type of s that is n copies of s one after
\* the other: its length is n*len(s) and its element at position p is the
\* element of s at ((p-1) mod len(s)) + 1; s is unchanged
C19_RepeatCopies ==
    Repeated =>
        LET n == last.call[1].n
            seq == last.call[2]
            content == items(seq, heap)
        IN /\ exc = NoExc
           /\ ctxs[last.ctx].stack # <<>>
           /\ LET made == ctxs[last.ctx].stack[1]
              IN /\ made.t = seq.t
                 /\ seq.t = "array" => made.n # seq.n
                 /\ Len(items(made, heap)) = n * Len(content)
                 /\ \A p \in 1..Len(items(made, heap)) :
                       items(made, heap)[p] = content[((p - 1) % Len(content)) + 1]
                 /\ ctxs[last.ctx].stack = <<made>> \o SubSeq(last.pre, 3, Len(last.pre))

\* C20: '..' on a non-empty stack pushes the current top once more and
\* leaves what is below, and every other context, unchanged; on an empty
\* stack of a context with a parent it pushes the parent's top and leaves
\* the parent's stack unchanged; on an empty stack of a context without a
\* parent it raises an operand error
C20_Dup ==
    [][AtOperator({"operator_dup"}) =>
          LET p == ctxs[C].parent
          IN /\ Stack # <<>> =>
                   /\ exc' = NoExc
                   /\ ctxs'[C].stack = <<Stack[1]>> \o Stack
                   /\ \A c \in 1..Len(ctxs) : c # C => ctxs'[c] = ctxs[c]
             /\ (Stack = <<>> /\ p # 0 /\ ctxs[p].stack # <<>>) =>
                   /\ exc' = NoExc
                   /\ ctxs'[C].stack = <<ctxs[p].stack[1]>>
                   /\ ctxs'[p].stack = ctxs[p].stack
             /\ (Stack = <<>> /\ p = 0) =>
                   /\ exc'.kind = "ScriptOperandError"
                   /\ ctxs'[C].stack = <<>>
      ]_vars

\* '..' was applied on an empty stack of a context with a parent, and the
\* parent's top is now on the stack of both
DupFromParent ==
    /\ Fresh
    /\ last.func = "operator_dup"
    /\ last.pre = <<>>
    /\ exc = NoExc
    /\ ctxs[last.ctx].parent # 0
    /\ ctxs[last.ctx].stack = <<ctxs[ctxs[last.ctx].parent].stack[1]>>

\* '..' was applied on an empty stack of a context without a parent
DupOnNothing ==
    /\ Fresh
    /\ last.func = "operator_dup"
    /\ last.pre = <<>>
    /\ ctxs[last.ctx].parent = 0

\* '..' was applied on an empty stack of a context whose parent has an empty
\* stack as well
DupFromEmptyParent ==
    /\ Fresh
    /\ last.func = "operator_dup"
    /\ exc.kind = "IndexError"

\* '%' or '|' is applied to (arg, block) with an executable block
InvokeStarts ==
    /\ AtOperator({"operator_invoke", "operator_compose"})
    /\ IsCtxExecValue(CallArgs[2])

\* the block of '%' or '|' has run to its end in the child
InvokeEnds(func) == Running /\ Top.kind = func

\* C21: '%' on (arg, block) runs the block in a new child context whose
\* stack holds only arg and then pushes the child's stack bottom-up, so that
\* the child's top ends on the caller's top; '|' pushes one Tuple of those
\* values instead; what is below the two operands stays as it is
C21_InvokeCompose ==
    [][/\ InvokeStarts =>
             /\ Len(ctxs') = Len(ctxs) + 1
             /\ ctxs'[Len(ctxs')].parent = C
             /\ ctxs'[Len(ctxs')].stack = <<CallArgs[1]>>
             /\ frames'[Len(frames')].kind = "exec"
             /\ frames'[Len(frames')].ctx = Len(ctxs')
             /\ iters'[Len(iters')] = [syms |-> CallArgs[2].s, pos |-> 0]
             /\ ctxs'[C].stack = Rest
       /\ InvokeEnds("operator_invoke") =>
             /\ exc' = NoExc
             /\ ctxs'[C].stack = ctxs[Top.sub].stack \o SubSeq(Top.pre, 3, Len(Top.pre))
       /\ InvokeEnds("operator_compose") =>
             /\ exc' = NoExc
             /\ ctxs'[C].stack = <<TupleValue(Reverse(ctxs[Top.sub].stack))>>
                                 \o SubSeq(Top.pre, 3, Len(Top.pre))
      ]_vars

\* C21, for '|' and for the start of both
ComposePacks ==
    [][/\ InvokeStarts =>
             /\ ctxs'[Len(ctxs')].stack = <<CallArgs[1]>>
             /\ ctxs'[C].stack = Rest
       /\ InvokeEnds("operator_compose") =>
             /\ exc' = NoExc
             /\ ctxs'[C].stack = <<TupleValue(Reverse(ctxs[Top.sub].stack))>>
                                 \o SubSeq(Top.pre, 3, Len(Top.pre))
      ]_vars

\* the evaluator takes an Array literal from the stream
ArrayLiteralStarts == AtSymbol("Literal") /\ Sym.x = "Array"

\* the payload of an Array literal the evaluator took has run to its end
ArrayLiteralEnds ==
    Running /\ Top.kind = "compound" /\ Top.sym.x = "Array" /\ Top.n = 0

\* the evaluator is about to apply an operator directly in the child of a
\* compound literal
InLiteral ==
    /\ AtSymbol("OperatorSym")
    /\ Len(frames) >= 2
    /\ frames[Len(frames) - 1].kind = "compound"
    /\ frames[Len(frames) - 1].sub = C

\* the operator finds fewer values on the child's stack than it takes
LacksOperands ==
    \/ Found.outcome = "not enough operands"
    \/ Sym.x = "Assign" /\ Stack = <<>>

\* '..' is about to be applied on the empty stack of the child
DupLacksOperand == Sym.x = "Dup" /\ Stack = <<>>

\* the enclosing stack of every compound literal under evaluation is what it
\* was when the literal was taken
EnclosingUntouched ==
    \A k \in 1..Len(frames) :
        frames[k].kind = "compound" => ctxs[frames[k].ctx].stack = frames[k].pre

\* an Array literal is evaluated in a child that shares the namespace and
\* starts with an empty stack; one new Array of the child's stack, bottom
\* first, is pushed on what the enclosing stack held
LiteralSteps ==
    /\ ArrayLiteralStarts =>
          /\ Len(ctxs') = Len(ctxs) + 1
          /\ ctxs'[Len(ctxs')].parent = C
          /\ ctxs'[Len(ctxs')].stack = <<>>
          /\ ctxs'[Len(ctxs')].namespace = ctxs[C].namespace
          /\ dicts' = dicts
          /\ frames'[Len(frames')].kind = "exec"
          /\ frames'[Len(frames')].ctx = Len(ctxs')
          /\ iters'[Len(iters')] = [syms |-> Sym.body, pos |-> 0]
          /\ ctxs'[C].stack = Stack
    /\ ArrayLiteralEnds =>
          /\ exc' = NoExc
          /\ Len(heap') = Len(heap) + 1
          /\ heap'[Len(heap')] = Reverse(ctxs[Top.sub].stack)
          /\ SubSeq(heap', 1, Len(heap)) = heap
          /\ ctxs'[C].stack = <<ArrayRef(Len(heap'))>> \o Top.pre

\* an operator that lacks operands in the child fails with an operand error
FailsInChild ==
    /\ status' = "raising"
    /\ exc'.kind = "ScriptOperandError"

InnermostExec(fs) ==
    IF \E k \in 1..Len(fs) : fs[k].kind = "exec"
    THEN CHOOSE k \in 1..Len(fs) :
            /\ fs[k].kind = "exec"
            /\ \A j \in (k + 1)..Len(fs) : fs[j].kind # "exec"
    ELSE 0

\* a script error is in flight
ScriptErrorInFlight == status = "raising" /\ exc.kind \in ScriptErrorKinds

\* the step raises a script error: it has no position yet, or the position
\* of the symbol the innermost exec is executing
RaisedAtSymbol ==
    (status = "running" /\ status' = "raising" /\ exc'.kind \in ScriptErrorKinds) =>
        /\ InnermostExec(frames') # 0
        /\ exc'.meta \in {0, frames'[InnermostExec(frames')].sym.meta}

\* the error leaves a frame: an exec gives an error without a position the
\* position of its symbol, and no frame changes a position the error has
PositionKept ==
    (ScriptErrorInFlight /\ frames # <<>>) =>
        /\ exc.meta # 0 => exc'.meta = exc.meta
        /\ (exc.meta = 0 /\ Top.kind = "exec") => exc'.meta = Top.sym.meta
        /\ (exc.meta = 0 /\ Top.kind # "exec") => exc'.meta = 0
        /\ exc'.kind = exc.kind

\* an error without a position has not yet left the exec that was executing
\* a symbol when it was raised
NotYetPositioned ==
    (ScriptErrorInFlight /\ exc.meta = 0) => InnermostExec(frames) # 0

\* C23: a script error raised without a position gets the position of the
\* symbol being executed from the exec frame that runs it; the enclosing
\* frames it then propagates through leave the position as it is, so the
\* error that ends run_script has the position of the innermost symbol; an
\* error raised with a position keeps it
C23_ErrorPosition ==
    [][/\ RaisedAtSymbol
       /\ PositionKept
       /\ NotYetPositioned'
       /\ (status' = "error" /\ exc'.kind \in ScriptErrorKinds) => exc'.meta # 0
      ]_vars

\* the run of 1 [ {+} ! ] has ended with the error of '+', two blocks deep,
\* at the position of that '+'
C23_Witness ==
    /\ script = get_symbols(<<Integer(1),
                              Array(<<Block(<<Op("Add")>>), Op("Eval")>>)>>, 0)
    /\ status = "error"
    /\ exc.kind = "ScriptOperandError"
    /\ exc.meta = script[2].body[1].body[1].meta

\* the evaluator is about to apply an operator on the root context, whose
\* stack is empty
OnEmptyRoot ==
    /\ AtSymbol("OperatorSym")
    /\ ctxs[C].parent = 0
    /\ Stack = <<>>

\* C24: any operator applied on a root context whose stack is empty raises
\* an operand error and leaves the stack empty
C24_EmptyStackFails ==
    [][OnEmptyRoot =>
          /\ status' = "raising"
          /\ exc'.kind = "ScriptOperandError"
          /\ ctxs'[C].stack = <<>>
      ]_vars

\* C24 with ';' as the code has it: every operator but Break raises an operand
\* error on the empty stack of a root context; Break clears the stack, which
\* is empty already, and raises nothing; the stack is empty afterwards
C24_EmptyStack ==
    [][OnEmptyRoot =>
          /\ ctxs'[C].stack = <<>>
          /\ IF Sym.x = "Break"
             THEN status' = "running" /\ exc' = NoExc
             ELSE status' = "raising" /\ exc'.kind = "ScriptOperandError"
      ]_vars

\* '..' has just failed for lack of an operand on the empty root stack
C24_Witness ==
    /\ Fresh
    /\ last.op = "Dup"
    /\ last.pre = <<>>
    /\ ctxs[last.ctx].parent = 0
    /\ ctxs[last.ctx].stack = <<>>
    /\ exc.kind = "ScriptOperandError"

\* ';' has just run on the empty root stack and nothing was raised
BreakOnNothing ==
    /\ Fresh
    /\ last.op = "Break"
    /\ last.pre = <<>>
    /\ ctxs[last.ctx].parent = 0
    /\ exc = NoExc

\* '=' has just been applied to a and b by the untyped handler
Compared == Fresh /\ last.func = "operator_equal" /\ last.returned

\* a and b are references to one Array
SameArray(a, b) == a.t = "array" /\ b.t = "array" /\ a.n = b.n

\* C25, '=' alone: two references to one Array compare true, two Arrays
\* created separately compare false whatever they hold, two Tuples with
\* the same contents compare true
EqualByIdentity ==
    Compared =>
        LET a == last.call[1]
            b == last.call[2]
        IN /\ SameArray(a, b) => last.ret = <<BoolValue(TRUE)>>
           /\ (a.t = "array" /\ b.t = "array" /\ a.n # b.n) =>
                 last.ret = <<BoolValue(FALSE)>>
           /\ (a.t = "tuple" /\ b.t = "tuple" /\ a.s = b.s) =>
                 last.ret = <<BoolValue(TRUE)>>

\* C25: one Array under two references (two names, or duplicated on the
\* stack by '..') compares true with '='; an in-place difference made
\* through one reference changes the contents every reference sees; two
\* Arrays created separately compare unequal and two Tuples with equal
\* contents compare equal
C25_ArrayIdentity ==
    /\ EqualByIdentity
    /\ (Fresh /\ last.func = "operator_dup" /\ last.pre # <<>>
          /\ last.pre[1].t = "array") =>
            /\ exc = NoExc
            /\ ctxs[last.ctx].stack = <<last.pre[1]>> \o last.pre
    /\ (Differed /\ last.call[1].t = "array") =>
            /\ exc = NoExc
            /\ ctxs[last.ctx].stack[1] = last.call[1]
            /\ heap[last.call[1].n] = Difference(last.call[1], last.call[2])

\* two names of one Array have just been compared
AliasesCompared ==
    /\ Compared
    /\ SameArray(last.call[1], last.call[2])
    /\ \E x, y \in Names :
          /\ x # y
          /\ script[Len(script) - 2] = [Id(x) EXCEPT !.meta = Len(script) - 2]
          /\ script[Len(script) - 1] = [Id(y) EXCEPT !.meta = Len(script) - 1]

\* the symbol operator_assign is about to take from the stream as its target
AssignTarget ==
    LET it == get_symbol_iter(C)
    IN IF Taken[it].pos < Len(Taken[it].syms)
       THEN Taken[it].syms[Taken[it].pos + 1] ELSE NoSym

\* ':' is about to be applied to a value, and what follows it is neither an
\* Identifier nor a Block literal
AssignsToOther ==
    /\ AtOperator({"operator_assign"})
    /\ Stack # <<>>
    /\ AssignTarget # NoSym
    /\ AssignTarget.k # "Identifier"
    /\ ~(AssignTarget.k = "Literal" /\ AssignTarget.x = "Block")

\* C26: ':' followed by a symbol that is neither an Identifier nor a Block
\* literal fails with a Syntax error; no name is bound and the following
\* symbol is not executed (no context is created for an Array literal)
C26_AssignSyntaxError ==
    [][AssignsToOther =>
          /\ status' = "raising"
          /\ exc'.kind = "ScriptSyntaxError"
          /\ dicts' = dicts
          /\ Len(ctxs') = Len(ctxs)
      ]_vars

\* C26 with the error class left open
AssignToOtherFails ==
    [][AssignsToOther =>
          /\ status' = "raising"
          /\ dicts' = dicts
          /\ Len(ctxs') = Len(ctxs)
      ]_vars

\* what the code does for such a symbol: a simple literal or an operator
\* raises ScriptOperandError at once, a compound literal is evaluated first
AssignToOtherAsCoded ==
    [][AssignsToOther =>
          /\ dicts' = dicts
          /\ IF AssignTarget.k = "Literal" /\ AssignTarget.x \in _compound_literals
             THEN status' = "running" /\ Len(ctxs') = Len(ctxs) + 1
             ELSE /\ exc'.kind = "ScriptOperandError"
                  /\ exc'.message = "invalid operands for assignment"
                  /\ Len(ctxs') = Len(ctxs)
      ]_vars

\* the payload of an Array literal that follows ':' has bound a name
PayloadOfTargetRan ==
    /\ Len(script) >= 3
    /\ script[2].x = "Assign" /\ script[3].k = "Literal" /\ script[3].x = "Array"
    /\ exc.kind = "ScriptOperandError"
    /\ exc.message = "invalid operands for assignment"
    /\ \E d \in 1..Len(dicts) : "b" \in DOMAIN dicts[d]

\* the sample values of the operand class of v
Siblings(v) == {w \in SampleValues : optype(w) = optype(v)}

RECURSIVE Alike(_)
\* the stacks of the length of s whose values have, position by position,
\* the operand classes of the values of s
Alike(s) ==
    IF s = <<>> THEN {<<>>}
    ELSE {<<w>> \o r : w \in Siblings(Head(s)), r \in Alike(Tail(s))}

\* the stacks that agree with stack in the operand classes of their top k
\* positions: the same classes where stack has a value, no value where it
\* has none, and anything below the k-th position
AlikeOnTop(stack, k) ==
    IF Len(stack) < k THEN Alike(stack)
    ELSE {top \o below : top \in Alike(SubSeq(stack, 1, k)),
                         below \in SeqsUpTo(SampleValues, MaxStack - k)}

\* C27: a dispatch of the operator on any stack that has the same operand
\* classes in its top positions, as many as the operator's maximum arity,
\* selects the same handler and consumes the same number of values, or it
\* selects none as this one did
C27_DispatchDeterminism ==
    d_result # NoResult =>
        \A t \in AlikeOnTop(d_result.pre, OP_ARITY(d_registry, d_op)) :
            LET other == search_registery(d_registry, d_op, t)
            IN /\ (other.outcome = "selected") = d_result.called
               /\ other.opdata = d_result.opdata
               /\ d_result.called =>
                     /\ other.args = SubSeq(t, 1, d_result.opdata.arity)
                     /\ Len(other.args) = Len(d_result.args)

\* the message of the operand error is the same for two such stacks; this is
\* more than C27 says, and an operator with no handler at all does not have
\* it ('not enough operands' on the empty stack, 'invalid operands' otherwise)
SameFailure ==
    d_result # NoResult =>
        \A t \in AlikeOnTop(d_result.pre, OP_ARITY(d_registry, d_op)) :
            search_registery(d_registry, d_op, t).outcome = d_result.outcome

\* a typed handler of two operands was selected on a stack of three values,
\* and a stack of other values of the same classes exists
C27_Witness ==
    /\ d_result.called
    /\ d_result.opdata.typed
    /\ d_result.opdata.arity = 2
    /\ Len(d_result.pre) = 3
    /\ \E t \in AlikeOnTop(d_result.pre, OP_ARITY(d_registry, d_op)) :
          /\ t[1] # d_result.pre[1]
          /\ t[2] # d_result.pre[2]
          /\ Len(t) = 2

\* the handlers of the operator that the top n values of the stack match:
\* the typed one with their signature and the untyped one of arity n
MatchingAt(n) ==
    IF n > Len(d_result.pre) THEN {}
    ELSE IF n = 0 THEN {o \in d_registry : o.op = d_op /\ o.arity = 0}
    ELSE TypedAt(n) \cup UntypedAt(n)

\* the arities at which the stack matches a handler
MatchingArities == {n \in 0..MaxStack : MatchingAt(n) # {}}

\* C28: dispatch selects a handler of the least arity the stack matches and
\* consumes that many values: when the stack matches at m and at n > m, the
\* handler of arity n is not the one that runs and no more than m values are
\* consumed; a handler of arity 0 is selected whatever the stack holds; and
\* with '<<' registered on (Number) and on (Number, Number), two Numbers
\* select the handler on (Number)
C28_LeastArityFirst ==
    d_result # NoResult =>
        /\ MatchingArities # {} =>
              LET m == CHOOSE k \in MatchingArities : \A j \in MatchingArities : k <= j
              IN /\ d_result.called
                 /\ d_result.opdata \in MatchingAt(m)
                 /\ d_result.args = SubSeq(d_result.pre, 1, m)
                 /\ d_stack = SubSeq(d_result.pre, m + 1, Len(d_result.pre))
        /\ \A m, n \in MatchingArities :
              m < n => /\ d_result.opdata.arity <= m
                       /\ Len(d_result.pre) - Len(d_stack) <= m
        /\ (d_registry = OP_REGISTRY_lshift /\ Len(d_result.pre) >= 2
              /\ optype(d_result.pre[1]) = "Number"
              /\ optype(d_result.pre[2]) = "Number") =>
                 /\ d_result.opdata.func = "operator_collect"
                 /\ Len(d_stack) = Len(d_result.pre) - 1

\* '<<' was dispatched on two Numbers with both handlers registered
C28_Witness ==
    /\ d_registry = OP_REGISTRY_lshift
    /\ d_result.called
    /\ {1, 2} \subseteq MatchingArities
    /\ d_result.opdata.arity = 1

\* a handler of arity 0 was selected on a stack of MaxStack values
ZeroArySelected ==
    /\ d_result.called
    /\ d_result.opdata.arity = 0
    /\ Len(d_result.pre) = MaxStack
    /\ d_stack = d_result.pre

\* the last step applied an operator and an operand error came out of it
OperandErrorRaised ==
    /\ Fresh
    /\ last.op # ""
    /\ exc.kind = "ScriptOperandError"

\* C29: an operator application that raises an operand error leaves the
\* stack of its context as it was before the operator symbol was executed
C29_StackKeptOnError ==
    OperandErrorRaised => ctxs[last.ctx].stack = last.pre

\* C29 for the errors of the search: no handler matches, or the stack has
\* not enough values
StackKeptByDispatch ==
    (OperandErrorRaised /\ last.outcome # "selected") =>
        ctxs[last.ctx].stack = last.pre

\* what the code does when a handler that takes operands rejects them: the
\* operands are gone from the stack and what was below them is left
OperandsLostOnReject ==
    (OperandErrorRaised /\ last.outcome = "selected") =>
        ctxs[last.ctx].stack = SubSeq(last.pre, last.arity + 1, Len(last.pre))

\* '%' has rejected a Float and an Int, and they are no longer on the stack
ModRejected ==
    /\ OperandErrorRaised
    /\ last.func = "operator_mod"
    /\ Len(last.pre) = 3
    /\ Len(ctxs[last.ctx].stack) = 1

\* '=' or '~=' has just been applied to a and b and has pushed a Bool
EqualApplied == Fresh /\ last.op \in {"Equal", "NE"} /\ last.returned

\* what 'x y op' pushes: the handler dispatch selects for (x, y), applied
EqualPushes(op, x, y) ==
    PureResult(search_registery(OP_REGISTRY, op, <<y, x>>).opdata.func, <<x, y>>, heap).ret

RECURSIVE HoldsBool(_)
\* v is a Bool or a Tuple that holds one
HoldsBool(v) ==
    \/ v.t = "bool"
    \/ v.t = "tuple" /\ \E i \in 1..Len(v.s) : HoldsBool(v.s[i])

\* C30: 'a b =' and 'b a =' push the same Bool, and 'a b ~=' pushes the
\* opposite Bool of 'a b ='
C30_EqualSymmetric ==
    EqualApplied =>
        LET a == last.call[1]
            b == last.call[2]
        IN /\ last.ret = EqualPushes(last.op, a, b)
           /\ EqualPushes("Equal", a, b) = EqualPushes("Equal", b, a)
           /\ EqualPushes("NE", a, b) = <<operator_not(EqualPushes("Equal", a, b)[1], heap)>>

\* C30 without the symmetry: '~=' is the negation of '='
NotEqualNegates ==
    EqualApplied =>
        LET a == last.call[1]
            b == last.call[2]
        IN /\ last.ret = EqualPushes(last.op, a, b)
           /\ EqualPushes("NE", a, b) = <<operator_not(EqualPushes("Equal", a, b)[1], heap)>>

\* the symmetry of '=' for operands that hold no Bool
SymmetricWithoutBool ==
    (EqualApplied /\ ~HoldsBool(last.call[1]) /\ ~HoldsBool(last.call[2])) =>
        EqualPushes("Equal", last.call[1], last.call[2])
            = EqualPushes("Equal", last.call[2], last.call[1])

\* 'false 0 =' has pushed false, where '0 false =' pushes true
BoolFirstDiffers ==
    /\ EqualApplied
    /\ last.op = "Equal"
    /\ last.call = <<BoolValue(FALSE), IntValue(0)>>
    /\ last.ret = <<BoolValue(FALSE)>>
    /\ EqualPushes("Equal", IntValue(0), BoolValue(FALSE)) = <<BoolValue(TRUE)>>

====
